---- MODULE Spec2Model ----
(***************************************************************************)
(* CAST (Columnar Agnostic Structural Transformation): a model of the      *)
(* compressor and decompressor of src/python_impl/native/cast.py, of the   *)
(* chunked framing of src/python_impl/native/cli.py and of the chunk loop  *)
(* of src/py/run_benchmarks.py.                                            *)
(*                                                                         *)
(* Bytes and code points are natural numbers; byte strings and texts are   *)
(* sequences of them.  The external codecs (lzma, zlib) are not part of    *)
(* the repository: lzma is modelled as a container with a magic byte and   *)
(* an integrity check, zlib.crc32 as a 24-bit checksum, and the length of  *)
(* the zlib sample is an input of the optimizer step.                      *)
(***************************************************************************)
EXTENDS Integers, Sequences, FiniteSets, TLC

\* ------------------------------------------------------------------------
\* Bounds of the model (not program constants)
\* ------------------------------------------------------------------------
MaxPieces == 3
LongLines == 11
StuffLines == 5
FillerWidth == 38
RandLines == 10

\* ------------------------------------------------------------------------
\* Program constants
\* ------------------------------------------------------------------------
VAR_PLACEHOLDER == 57344
REG_SEP == 57345
QUOTE == 34
BACKSLASH == 92
LF == 10
CR == 13
PASSTHROUGH_FLAG == 255
LATIN1_BIT == 128
SNIFF_LEN == 4096
ANALYZE_CHARS == 200000
ANALYZE_LINES == 1000

\* a None entry of skeletons_list
NoneValue == <<-1>>

Min(a, b) == IF a < b THEN a ELSE b

\* Concatenation and sum of ss[lo..hi], by halves: the evaluator's stack
\* bounds the depth of a recursion, so nothing recurses once per byte
RECURSIVE ConcatRange(_, _, _)
ConcatRange(ss, lo, hi) ==
  IF lo > hi THEN <<>>
  ELSE IF lo = hi THEN ss[lo]
  ELSE LET mid == (lo + hi) \div 2
       IN ConcatRange(ss, lo, mid) \o ConcatRange(ss, mid + 1, hi)

Concat(ss) == ConcatRange(ss, 1, Len(ss))

RECURSIVE SumRange(_, _, _)
SumRange(ns, lo, hi) ==
  IF lo > hi THEN 0
  ELSE IF lo = hi THEN ns[lo]
  ELSE LET mid == (lo + hi) \div 2
       IN SumRange(ns, lo, mid) + SumRange(ns, mid + 1, hi)

Sum(ns) == SumRange(ns, 1, Len(ns))

\* sep.join(ss)
Join(sep, ss) ==
  IF Len(ss) = 0 THEN <<>>
  ELSE Concat([i \in 1..(2 * Len(ss) - 1) |->
                 IF i % 2 = 1 THEN ss[(i + 1) \div 2] ELSE sep])

\* the parts of t cut after every position of ends (an end belongs to the
\* part it closes when keep is TRUE), then what follows the last end
LastEndBefore(ends, i) ==
  IF \E e \in ends : e < i
  THEN CHOOSE e \in ends : e < i /\ \A f \in ends : f < i => f <= e
  ELSE 0

Segments(t, ends, drop) ==
  Concat([i \in 1..Len(t) |->
            IF i \in ends
            THEN <<SubSeq(t, LastEndBefore(ends, i) + 1, i - drop[i])>>
            ELSE <<>>])

Remainder(t, ends) == SubSeq(t, LastEndBefore(ends, Len(t) + 1) + 1, Len(t))

Contains(s, x) == \E i \in 1..Len(s) : s[i] = x

Count(s, x) == Cardinality({i \in 1..Len(s) : s[i] = x})

Prefix(s, n) == SubSeq(s, 1, Min(n, Len(s)))

\* ------------------------------------------------------------------------
\* Text codecs: bytes.decode("utf-8"), bytes.decode("latin-1"),
\* str.encode("utf-8"), str.encode("latin-1")
\* ------------------------------------------------------------------------
IsCont(b) == b >= 128 /\ b <= 191

\* Length of the well-formed UTF-8 sequence starting at b[i], 0 if none
Utf8SeqLen(b, i) ==
  LET n  == Len(b)
      b0 == b[i]
      c(k) == i + k <= n /\ IsCont(b[i + k])
  IN IF b0 < 128 THEN 1
     ELSE IF b0 >= 194 /\ b0 <= 223 THEN (IF c(1) THEN 2 ELSE 0)
     ELSE IF b0 = 224 THEN (IF c(1) /\ b[i + 1] >= 160 /\ c(2) THEN 3 ELSE 0)
     ELSE IF b0 = 237 THEN (IF c(1) /\ b[i + 1] <= 159 /\ c(2) THEN 3 ELSE 0)
     ELSE IF b0 >= 225 /\ b0 <= 239 THEN (IF c(1) /\ c(2) THEN 3 ELSE 0)
     ELSE IF b0 = 240 THEN (IF c(1) /\ b[i + 1] >= 144 /\ c(2) /\ c(3) THEN 4 ELSE 0)
     ELSE IF b0 >= 241 /\ b0 <= 243 THEN (IF c(1) /\ c(2) /\ c(3) THEN 4 ELSE 0)
     ELSE IF b0 = 244 THEN (IF c(1) /\ b[i + 1] <= 143 /\ c(2) /\ c(3) THEN 4 ELSE 0)
     ELSE 0

Utf8CodePoint(b, i, k) ==
  IF k = 1 THEN b[i]
  ELSE IF k = 2 THEN (b[i] - 192) * 64 + (b[i + 1] - 128)
  ELSE IF k = 3 THEN (b[i] - 224) * 4096 + (b[i + 1] - 128) * 64 + (b[i + 2] - 128)
  ELSE (b[i] - 240) * 262144 + (b[i + 1] - 128) * 4096
       + (b[i + 2] - 128) * 64 + (b[i + 3] - 128)

\* bytes.decode("utf-8"): every byte that is no continuation byte opens a
\* well-formed sequence, and continuation bytes occur only inside one
Utf8Decode(b) ==
  LET wellformed ==
        \A i \in 1..Len(b) :
          IF IsCont(b[i])
          THEN i > 1 /\ \E j \in 1..(i - 1) :
                 ~IsCont(b[j]) /\ i < j + Utf8SeqLen(b, j)
                 /\ \A m \in (j + 1)..(i - 1) : IsCont(b[m])
          ELSE Utf8SeqLen(b, i) > 0
  IN IF wellformed
     THEN [ok |-> TRUE,
           text |-> Concat([i \in 1..Len(b) |->
                      IF IsCont(b[i]) THEN <<>>
                      ELSE <<Utf8CodePoint(b, i, Utf8SeqLen(b, i))>>])]
     ELSE [ok |-> FALSE, text |-> <<>>]

Latin1Decode(b) == b

Utf8EncodeChar(c) ==
  IF c < 128 THEN <<c>>
  ELSE IF c < 2048 THEN <<192 + (c \div 64), 128 + (c % 64)>>
  ELSE IF c < 65536
    THEN <<224 + (c \div 4096), 128 + ((c \div 64) % 64), 128 + (c % 64)>>
  ELSE <<240 + (c \div 262144), 128 + ((c \div 4096) % 64),
         128 + ((c \div 64) % 64), 128 + (c % 64)>>

Utf8Encode(t) == Concat([i \in 1..Len(t) |-> Utf8EncodeChar(t[i])])

Latin1Encode_Replacing(t) ==
  [ok |-> TRUE, bytes |-> [i \in 1..Len(t) |-> IF t[i] < 256 THEN t[i] ELSE 63]]

Latin1Encode(t) ==
  IF \A i \in 1..Len(t) : t[i] < 256
  THEN [ok |-> TRUE, bytes |-> t]
  ELSE [ok |-> FALSE, bytes |-> <<>>]

\* ------------------------------------------------------------------------
\* str.splitlines
\* ------------------------------------------------------------------------
IsLineBreak(c) == c \in {10, 11, 12, 13, 28, 29, 30, 133, 8232, 8233}

\* a line ends at a line break; CR LF is one break, ending at the LF
splitlines(t, keepends) ==
  LET ends == {i \in 1..Len(t) :
                 IsLineBreak(t[i]) /\ ~(t[i] = CR /\ i < Len(t) /\ t[i + 1] = LF)}
      drop == [i \in 1..Len(t) |->
                 IF keepends THEN 0
                 ELSE IF t[i] = LF /\ i > 1 /\ t[i - 1] = CR THEN 2
                 ELSE 1]
      last == Remainder(t, ends)
  IN Segments(t, ends, drop) \o (IF Len(last) > 0 THEN <<last>> ELSE <<>>)

\* ------------------------------------------------------------------------
\* Tokenizer: regex_strict and regex_aggressive
\* A match is the index one past its last character, 0 when there is none.
\* ------------------------------------------------------------------------
IsDigit(c) == c >= 48 /\ c <= 57

IsHexDigit(c) == IsDigit(c) \/ (c >= 97 /\ c <= 102) \/ (c >= 65 /\ c <= 70)

\* [a-zA-Z0-9_.\-]
IsWordChar(c) ==
  IsDigit(c) \/ (c >= 97 /\ c <= 122) \/ (c >= 65 /\ c <= 90) \/ c \in {95, 46, 45}

RECURSIVE RunEnd(_, _, _)
\* index one past the run of characters of class cls ("d", "h", "w") from p
RunEnd(s, p, cls) ==
  IF p <= Len(s) /\ ( (cls = "d" /\ IsDigit(s[p]))
                   \/ (cls = "h" /\ IsHexDigit(s[p]))
                   \/ (cls = "w" /\ IsWordChar(s[p])) )
  THEN RunEnd(s, p + 1, cls)
  ELSE p

RECURSIVE QuotedBody(_, _)
\* (?:[^"\\]|\\.|"")*"  from p, greedy with backtracking
QuotedBody(s, p) ==
  IF p > Len(s) THEN 0
  ELSE LET c == s[p]
           step == IF c # QUOTE /\ c # BACKSLASH THEN 1
                   ELSE IF c = BACKSLASH
                     THEN (IF p + 1 <= Len(s) /\ s[p + 1] # LF THEN 2 ELSE 0)
                   ELSE (IF p + 1 <= Len(s) /\ s[p + 1] = QUOTE THEN 2 ELSE 0)
           more == IF step > 0 THEN QuotedBody(s, p + step) ELSE 0
       IN IF more > 0 THEN more
          ELSE IF c = QUOTE THEN p + 1
          ELSE 0

MatchQuoted(s, p) == IF s[p] = QUOTE THEN QuotedBody(s, p + 1) ELSE 0

\* \-?\d+(?:\.\d+)?
MatchNumber(s, p) ==
  LET q == IF s[p] = 45 THEN p + 1 ELSE p
      e == RunEnd(s, q, "d")
  IN IF e = q THEN 0
     ELSE IF e <= Len(s) /\ s[e] = 46 /\ RunEnd(s, e + 1, "d") > e + 1
       THEN RunEnd(s, e + 1, "d")
     ELSE e

\* 0x[0-9a-fA-F]+
MatchHex(s, p) ==
  IF s[p] = 48 /\ p + 1 <= Len(s) /\ s[p + 1] = 120 /\ RunEnd(s, p + 2, "h") > p + 2
  THEN RunEnd(s, p + 2, "h")
  ELSE 0

MatchWord(s, p) == IF RunEnd(s, p, "w") > p THEN RunEnd(s, p, "w") ELSE 0

regex_strict(s, p) ==
  IF MatchQuoted(s, p) > 0 THEN MatchQuoted(s, p)
  ELSE IF MatchNumber(s, p) > 0 THEN MatchNumber(s, p)
  ELSE MatchHex(s, p)

regex_aggressive(s, p) ==
  IF MatchQuoted(s, p) > 0 THEN MatchQuoted(s, p) ELSE MatchWord(s, p)

active_pattern(mode, s, p) ==
  IF mode = "Aggressive" THEN regex_aggressive(s, p) ELSE regex_strict(s, p)

RECURSIVE SubFrom_QuotesKept(_, _, _, _, _, _)
\* the callback that appends the quoted token whole, quotes included
SubFrom_QuotesKept(mode, s, p, skel, vs, quoted) ==
  IF p > Len(s) THEN [none |-> FALSE, skeleton |-> skel, variables |-> vs]
  ELSE LET e == active_pattern(mode, s, p)
       IN IF e = 0 THEN SubFrom_QuotesKept(mode, s, p + 1, Append(skel, s[p]), vs, quoted)
          ELSE IF quoted /\ s[p] = QUOTE
            THEN SubFrom_QuotesKept(mode, s, e,
                                    skel \o <<QUOTE, VAR_PLACEHOLDER, QUOTE>>,
                                    Append(vs, SubSeq(s, p, e - 1)), quoted)
          ELSE SubFrom_QuotesKept(mode, s, e, Append(skel, VAR_PLACEHOLDER),
                                  Append(vs, SubSeq(s, p, e - 1)), quoted)

RECURSIVE SubFrom(_, _, _, _, _, _)
\* pattern.sub(replace_callback, line): quoted selects the callback of
\* _mask_line (quotes kept in the skeleton, stripped from the variable);
\* otherwise every match becomes one placeholder
SubFrom(mode, s, p, skel, vs, quoted) ==
  IF p > Len(s) THEN [none |-> FALSE, skeleton |-> skel, variables |-> vs]
  ELSE LET e == active_pattern(mode, s, p)
       IN IF e = 0 THEN SubFrom(mode, s, p + 1, Append(skel, s[p]), vs, quoted)
          ELSE IF quoted /\ s[p] = QUOTE
            THEN SubFrom(mode, s, e,
                         skel \o <<QUOTE, VAR_PLACEHOLDER, QUOTE>>,
                         Append(vs, SubSeq(s, p + 1, e - 2)), quoted)
          ELSE SubFrom(mode, s, e, Append(skel, VAR_PLACEHOLDER),
                       Append(vs, SubSeq(s, p, e - 1)), quoted)

\* _mask_line: None when the line holds one of the two reserved characters
mask_line_PlaceholderOnly(mode, line) ==
  IF Contains(line, VAR_PLACEHOLDER)
  THEN [none |-> TRUE, skeleton |-> <<>>, variables |-> <<>>]
  ELSE SubFrom(mode, line, 1, <<>>, <<>>, TRUE)

mask_line(mode, line) ==
  IF Contains(line, VAR_PLACEHOLDER) \/ Contains(line, REG_SEP)
  THEN [none |-> TRUE, skeleton |-> <<>>, variables |-> <<>>]
  ELSE SubFrom(mode, line, 1, <<>>, <<>>, TRUE)

\* _analyze_best_strategy: the mode name left in the instance
analyze_best_strategy(old_mode, text_sample) ==
  LET sample_lines == Prefix(splitlines(Prefix(text_sample, ANALYZE_CHARS), FALSE),
                             ANALYZE_LINES)
      strict_templates ==
        {SubFrom("Strict", sample_lines[i], 1, <<>>, <<>>, FALSE).skeleton :
           i \in 1..Len(sample_lines)}
  IN IF Len(sample_lines) = 0 THEN old_mode
     ELSE IF Cardinality(strict_templates) * 10 > Len(sample_lines)
       THEN "Aggressive"
     ELSE "Strict"

\* _is_likely_binary on bytes
IsSuspicious(b) == b = 0 \/ (0 < b /\ b < 32 /\ b \notin {9, 10, 13})

is_likely_binary(data_sample) ==
  IF Len(data_sample) = 0 THEN FALSE
  ELSE LET sample == Prefix(data_sample, SNIFF_LEN)
           suspicious_chars ==
             Cardinality({i \in 1..Len(sample) : IsSuspicious(sample[i])})
       IN Len(sample) > 0 /\ suspicious_chars * 100 > Len(sample)

\* ------------------------------------------------------------------------
\* External codecs
\* ------------------------------------------------------------------------
XZ_MAGIC == 253
XZ_SLACK == 0
XZ_HEADER == 2
CRC_MOD == 16777216

\* integrity check stored in the container
LzmaCheck(b) == (Sum(b) + Len(b)) % 256

\* lzma.compress: a container around the payload, never empty. The second
\* byte stands for the bits of an LZMA stream that its decoder does not
\* depend on: the encoder writes XZ_SLACK there and the decoder skips it.
lzma_compress(b) == <<XZ_MAGIC, XZ_SLACK>> \o b \o <<LzmaCheck(b)>>

\* lzma.decompress: raises LZMAError on anything that is not a container
lzma_decompress(c) ==
  IF Len(c) > XZ_HEADER /\ c[1] = XZ_MAGIC
     /\ c[Len(c)] = LzmaCheck(SubSeq(c, XZ_HEADER + 1, Len(c) - 1))
  THEN [ok |-> TRUE, data |-> SubSeq(c, XZ_HEADER + 1, Len(c) - 1)]
  ELSE [ok |-> FALSE, data |-> <<>>]

\* zlib.crc32: a checksum of the bytes and of their positions, 0 for the
\* empty string; it is kept to 24 bits because the model checker's integers
\* are 32-bit signed
CrcWeight(i) == ((i * 7919) % 4096) + 1

crc32(b) == Sum([i \in 1..Len(b) |-> ((b[i] + 1) * CrcWeight(i)) % CRC_MOD]) % CRC_MOD

\* struct.pack("<I", n)
PackU32(n) ==
  <<n % 256, (n \div 256) % 256, (n \div 65536) % 256, (n \div 16777216) % 256>>

UnpackU32(b, i) == b[i] + b[i + 1] * 256 + b[i + 2] * 65536 + b[i + 3] * 16777216

PackU16(n) == <<n % 256, (n \div 256) % 256>>

\* a length field used to slice a payload: every length of LEN_CAP or more
\* reaches past the end of the payloads at hand and slices like LEN_CAP
LEN_CAP == 65536

UnpackLen(b, i) ==
  IF b[i + 2] = 0 /\ b[i + 3] = 0 THEN b[i] + b[i + 1] * 256 ELSE LEN_CAP

\* ------------------------------------------------------------------------
\* Byte stuffing
\* ------------------------------------------------------------------------
B_ESC == 1
B_ROW == 0
B_COL == 2
SEQ_ESC == <<1, 1>>
SEQ_ROW == <<1, 0>>
SEQ_COL == <<1, 3>>
ROW_SEP == 0
COL_SEP == 2

RECURSIVE Replace1(_, _, _)
\* bytes.replace(one byte, sequence)
Replace1(b, x, seq) ==
  IF Len(b) = 0 THEN <<>>
  ELSE (IF Head(b) = x THEN seq ELSE <<Head(b)>>) \o Replace1(Tail(b), x, seq)

RECURSIVE Replace2(_, _, _)
\* bytes.replace(two-byte sequence, one byte), left to right, non-overlapping
Replace2(b, seq, x) ==
  IF Len(b) < 2 THEN b
  ELSE IF b[1] = seq[1] /\ b[2] = seq[2]
    THEN <<x>> \o Replace2(SubSeq(b, 3, Len(b)), seq, x)
  ELSE <<b[1]>> \o Replace2(Tail(b), seq, x)

\* the three replacements of the encoder, in its order
Escape_ColumnByteKept(v_bytes) ==
  Replace1(Replace1(v_bytes, B_ESC, SEQ_ESC), B_ROW, SEQ_ROW)

Escape(v_bytes) ==
  Replace1(Replace1(Replace1(v_bytes, B_ESC, SEQ_ESC), B_ROW, SEQ_ROW), B_COL, SEQ_COL)

Unescape(chunk) ==
  Replace2(Replace2(Replace2(chunk, SEQ_COL, B_COL), SEQ_ROW, B_ROW), SEQ_ESC, B_ESC)

\* ------------------------------------------------------------------------
\* CASTCompressor.compress: helpers of the optimizer and of the serializer
\* ------------------------------------------------------------------------
AGGRESSIVE_PCT == 40
STRICT_PCT == 25
SPLIT_TEMPLATES == 256
SAMPLE_TEMPLATES == 5
SAMPLE_VALUES == 50
SAMPLE_COUNT == 2000
RATIO_LIMIT == 3
\* zlib.compress(sample, level=1) of a non-empty sample is never shorter than
\* ZLIB_MIN_LEN bytes and never longer than the sample plus ZLIB_OVERHEAD
ZLIB_MIN_LEN == 9
ZLIB_OVERHEAD == 11

\* next_template_id > num_lines * (0.40 if Aggressive else 0.25)
OverUniqueLimit_Never(next_id, num_lines, mode) == FALSE

OverUniqueLimit_LineCount(next_id, num_lines, mode) == next_id > num_lines

OverUniqueLimit(next_id, num_lines, mode) ==
  next_id * 100 > num_lines * (IF mode = "Aggressive" THEN AGGRESSIVE_PCT ELSE STRICT_PCT)

create_passthrough(data_bytes, reason) ==
  [c_reg |-> <<>>, c_ids |-> <<>>, c_vars |-> lzma_compress(data_bytes),
   flag |-> PASSTHROUGH_FLAG, info |-> reason]

SumLen(vals) == Sum([i \in 1..Len(vals) |-> Len(Utf8Encode(vals[i]))])

RECURSIVE SampleColumns(_, _, _, _)
\* the loop over the columns of one template: <<count, length of the sample>>
SampleColumns(cols, j, count, size) ==
  IF j > Len(cols) THEN <<count, size>>
  ELSE LET vals == Prefix(cols[j], SAMPLE_VALUES)
           c2   == count + Len(vals)
           s2   == size + SumLen(vals)
       IN IF c2 > SAMPLE_COUNT THEN <<c2, s2>>
          ELSE SampleColumns(cols, j + 1, c2, s2)

RECURSIVE SampleTemplates(_, _, _, _, _)
SampleTemplates(storage, t_id, n, count, size) ==
  IF t_id >= n THEN size
  ELSE LET r == SampleColumns(storage[t_id], 1, count, size)
       IN SampleTemplates(storage, t_id + 1, n, r[1], r[2])

\* the sample counted as never empty
SampleSize_NeverEmpty(skeletons, storage) ==
  SampleTemplates(storage, 0, Min(Len(skeletons), SAMPLE_TEMPLATES), 0, 0) + 1

\* len(sample_buffer)
SampleSize(skeletons, storage) ==
  SampleTemplates(storage, 0, Min(Len(skeletons), SAMPLE_TEMPLATES), 0, 0)

FirstIndex(stream, x) ==
  CHOOSE i \in 1..Len(stream) : stream[i] = x /\ \A j \in 1..(i - 1) : stream[j] # x

\* x comes before y in Counter(stream).most_common(): a larger count first,
\* and among equal counts the one met first in the stream (the sort is stable)
MoreCommon_FirstSeen(stream, x, y) == FirstIndex(stream, x) < FirstIndex(stream, y)

\* the rank taken from the counts alone, ties left unbroken
MoreCommon_CountOnly(stream, x, y) == Count(stream, x) > Count(stream, y)

MoreCommon(stream, x, y) ==
  \/ Count(stream, x) > Count(stream, y)
  \/ Count(stream, x) = Count(stream, y) /\ FirstIndex(stream, x) < FirstIndex(stream, y)

\* remap_table: old id -> new id, the rank of the id in most_common()
RemapTable(stream) ==
  LET keys == {stream[i] : i \in 1..Len(stream)}
  IN [old_id \in keys |-> Cardinality({y \in keys : MoreCommon(stream, y, old_id)})]

EncodeValues(vals) == [i \in 1..Len(vals) |-> Escape(Utf8Encode(vals[i]))]

RECURSIVE ColumnsBlob(_)
\* the columns of one template: values joined by ROW_SEP, each column closed by COL_SEP
ColumnsBlob(cols) ==
  IF Len(cols) = 0 THEN <<>>
  ELSE Join(<<ROW_SEP>>, EncodeValues(Head(cols))) \o <<COL_SEP>> \o ColumnsBlob(Tail(cols))

RECURSIVE VarsBuffer(_, _, _)
VarsBuffer(storage, t_id, n) ==
  IF t_id >= n THEN <<>>
  ELSE ColumnsBlob(storage[t_id]) \o VarsBuffer(storage, t_id + 1, n)

\* struct.pack of the stream with a width of w bytes; nothing when w is 0
PackIds(stream, w) ==
  IF w = 0 THEN <<>>
  ELSE Concat([i \in 1..Len(stream) |->
                 IF w = 1 THEN <<stream[i]>>
                 ELSE IF w = 2 THEN PackU16(stream[i])
                 ELSE PackU32(stream[i])])

\* the byte width kept one template too long
IdModeFlag_ByteFor256(num_templates) ==
  IF num_templates = 1 THEN 3
  ELSE IF num_templates <= SPLIT_TEMPLATES THEN 2
  ELSE IF num_templates > 65535 THEN 1
  ELSE 0

\* the width flag chosen from the number of templates
IdModeFlag(num_templates) ==
  IF num_templates = 1 THEN 3
  ELSE IF num_templates < SPLIT_TEMPLATES THEN 2
  ELSE IF num_templates > 65535 THEN 1
  ELSE 0

IdWidth(flag) == IF flag = 3 THEN 0 ELSE IF flag = 2 THEN 1 ELSE IF flag = 1 THEN 4 ELSE 2

\* ------------------------------------------------------------------------
\* CASTDecompressor
\* ------------------------------------------------------------------------
NoCrc == -1

Raised(kind) == [status |-> kind, data |-> <<>>]

UnpackAll(b, w) ==
  [n \in 1..(Len(b) \div w) |->
     LET i == (n - 1) * w + 1
     IN IF w = 1 THEN b[i]
        ELSE IF w = 2 THEN b[i] + b[i + 1] * 256
        ELSE UnpackU32(b, i)]

\* _unpack_ids; struct.unpack raises when the length is no multiple of the width
unpack_ids(ids_bytes, mode) ==
  LET num_bytes == Len(ids_bytes)
      w == IF mode = 2 THEN 1 ELSE IF mode = 1 THEN 4 ELSE 2
  IN IF num_bytes = 0 THEN [ok |-> TRUE, ids |-> <<>>]
     ELSE IF num_bytes % w # 0 THEN [ok |-> FALSE, ids |-> <<>>]
     ELSE [ok |-> TRUE, ids |-> UnpackAll(ids_bytes, w)]

\* str.split(separator): always at least one part
split(t, sep) ==
  LET ends == {i \in 1..Len(t) : t[i] = sep}
  IN Append(Segments(t, ends, [i \in 1..Len(t) |-> 1]), Remainder(t, ends))

\* The scans of the decoder step over the byte that follows an escape byte
\* (i += 2).  Started at the first byte of v, or right after a separator it
\* has met, a scan meets position i exactly when the run of escape bytes that
\* ends just before i has an even length.
EscapeRun(v, i) ==
  IF \E j \in 1..(i - 1) : v[j] # B_ESC
  THEN i - 1 - (CHOOSE j \in 1..(i - 1) :
                  v[j] # B_ESC /\ \A m \in (j + 1)..(i - 1) : v[m] = B_ESC)
  ELSE i - 1

Scanned(v, i) == EscapeRun(v, i) % 2 = 0

Slice(v, first, past) == SubSeq(v, first, Min(past - 1, Len(v)))

\* 3.1 Find Columns: pairs <<first index, index one past the last>>
FindColumns(v) ==
  LET ends == {i \in 1..Len(v) : Scanned(v, i) /\ v[i] = COL_SEP}
      start == LastEndBefore(ends, Len(v) + 1) + 1
  IN Concat([i \in 1..Len(v) |->
               IF i \in ends THEN << <<LastEndBefore(ends, i) + 1, i>> >> ELSE <<>>])
     \o (IF start <= Len(v) THEN << <<start, Len(v) + 1>> >> ELSE <<>>)

\* 3.2 Extract Rows of the column v[col_start .. col_end - 1]
DecodeCells(v, col_start, col_end) ==
  LET col == Slice(v, col_start, col_end)
      ends == {i \in 1..Len(col) : Scanned(col, i) /\ col[i] = ROW_SEP}
      cells == Append(Segments(col, ends, [i \in 1..Len(col) |-> 1]),
                      Remainder(col, ends))
  IN [i \in 1..Len(cells) |-> Unescape(cells[i])]

\* the columns bound to one template: num_vars of them, fewer when they run out
TakeColumns(v, offsets, next, num_vars) ==
  [j \in 1..Min(num_vars, Len(offsets) - next + 1) |->
     DecodeCells(v, offsets[next + j - 1][1], offsets[next + j - 1][2])]

RECURSIVE BindColumns(_, _, _, _, _)
\* columns_storage of the decoder, a sequence indexed by template id + 1
BindColumns(v, offsets, next, skeletons, acc) ==
  IF Len(skeletons) = 0 THEN acc
  ELSE LET num_vars == Count(Head(skeletons), VAR_PLACEHOLDER)
           cols == TakeColumns(v, offsets, next, num_vars)
       IN BindColumns(v, offsets, next + Len(cols), Tail(skeletons), Append(acc, cols))

RECURSIVE Splice(_, _)
\* row_components[::2] = parts; row_components[1::2] = vars
Splice(parts, vs) ==
  IF Len(vs) = 0 THEN Concat(parts)
  ELSE Head(parts) \o Head(vs) \o Splice(Tail(parts), Tail(vs))

PartsOf(skel) ==
  LET ps == split(skel, VAR_PLACEHOLDER)
  IN [i \in 1..Len(ps) |-> Utf8Encode(ps[i])]

MinLen(queues) ==
  CHOOSE m \in {Len(queues[i]) : i \in 1..Len(queues)} :
    \A i \in 1..Len(queues) : m <= Len(queues[i])

\* flag 3: for vars_tuple in zip(*queues); the slice assignment raises
\* when the numbers of parts and of columns do not fit
SingleRows(parts, queues) ==
  IF MinLen(queues) = 0 THEN [ok |-> TRUE, data |-> <<>>]
  ELSE IF Len(parts) # Len(queues) + 1 THEN [ok |-> FALSE, data |-> <<>>]
  ELSE [ok |-> TRUE,
        data |-> Concat([k \in 1..MinLen(queues) |->
                   Splice(parts, [i \in 1..Len(queues) |-> queues[i][k]])])]

\* The loop over template_ids.  Turn j takes row number RowIndex(ids, j) of
\* its template; the loop ends at the first turn that raises (an id without a
\* skeleton, parts and columns that do not fit) or that finds a column
\* exhausted (StopIteration, break).
RowIndex(ids, j) == Cardinality({m \in 1..j : ids[m] = ids[j]})

TurnOf(ids, skeletons, storage, j) ==
  LET t == ids[j] + 1
  IN IF t > Len(skeletons) THEN "raise"
     ELSE IF \E i \in 1..Len(storage[t]) : Len(storage[t][i]) < RowIndex(ids, j)
       THEN "break"
     ELSE IF Len(PartsOf(skeletons[t])) # Len(storage[t]) + 1 THEN "raise"
     ELSE "row"

StreamRows(ids, skeletons, storage) ==
  LET stops == {j \in 1..Len(ids) : TurnOf(ids, skeletons, storage, j) # "row"}
      first == IF stops = {} THEN Len(ids) + 1
               ELSE CHOOSE j \in stops : \A m \in stops : j <= m
  IN [ok |-> first > Len(ids) \/ TurnOf(ids, skeletons, storage, first) = "break",
      data |-> Concat([j \in 1..(first - 1) |->
                 Splice(PartsOf(skeletons[ids[j] + 1]),
                        [i \in 1..Len(storage[ids[j] + 1]) |->
                           storage[ids[j] + 1][i][RowIndex(ids, j)]])])]

\* stages 3 to 6 of decompress, from the decoded registry, ids and variables
Reconstruct(reg_data_bytes, template_ids, vars_data_bytes, expected_crc, real_id_flag, is_latin1) ==
  LET reg == Utf8Decode(reg_data_bytes)
      skeletons == split(reg.text, REG_SEP)
      offsets == FindColumns(vars_data_bytes)
      storage == BindColumns(vars_data_bytes, offsets, 1, skeletons, <<>>)
      rows == IF real_id_flag = 3
              THEN (IF Len(storage[1]) > 0
                    THEN SingleRows(PartsOf(skeletons[1]), storage[1])
                    ELSE [ok |-> TRUE, data |-> <<>>])
              ELSE StreamRows(template_ids, skeletons, storage)
      as_text == Utf8Decode(rows.data)
      restored == IF as_text.ok THEN Latin1Encode(as_text.text)
                  ELSE [ok |-> FALSE, bytes |-> <<>>]
      final_blob == IF is_latin1 /\ restored.ok THEN restored.bytes ELSE rows.data
  IN IF ~reg.ok THEN Raised("Error")
     ELSE IF ~rows.ok THEN Raised("Error")
     ELSE IF expected_crc # NoCrc /\ crc32(final_blob) # expected_crc
       THEN Raised("CrcError")
     ELSE [status |-> "ok", data |-> final_blob]

\* an LZMAError of lzma.decompress is not caught: it leaves decompress
OnCodecError_Swallowed == [status |-> "ok", data |-> <<>>]

OnCodecError == Raised("CodecError")

\* the passthrough path: a CRC mismatch is printed and the data returned
OnPassthroughMismatch(data) == [status |-> "ok", data |-> data]

decompress(c_registry, c_ids, c_vars, expected_crc, id_mode_flag) ==
  IF id_mode_flag = PASSTHROUGH_FLAG
  THEN LET d == lzma_decompress(c_vars)
       IN IF ~d.ok THEN OnCodecError
          ELSE IF expected_crc # NoCrc /\ crc32(d.data) # expected_crc
            THEN OnPassthroughMismatch(d.data)
          ELSE [status |-> "ok", data |-> d.data]
  ELSE
    LET is_latin1 == (id_mode_flag \div LATIN1_BIT) % 2 = 1
        real_id_flag == id_mode_flag % LATIN1_BIT
        is_unified == Len(c_registry) = 0 /\ Len(c_ids) = 0
    IN IF is_unified
       THEN LET full == lzma_decompress(c_vars)
                p == full.data
                len_reg == UnpackLen(p, 1)
                len_ids == UnpackLen(p, 5)
                reg_bytes == Slice(p, 9, 9 + len_reg)
                ids_bytes == IF real_id_flag = 3 THEN <<>>
                             ELSE Slice(p, 9 + len_reg, 9 + len_reg + len_ids)
                offset == IF real_id_flag = 3 THEN 9 + len_reg ELSE 9 + len_reg + len_ids
                vars_bytes == Slice(p, offset, Len(p) + 1)
                ids == IF real_id_flag = 3 THEN [ok |-> TRUE, ids |-> <<>>]
                       ELSE unpack_ids(ids_bytes, real_id_flag)
            IN IF ~full.ok THEN OnCodecError
               ELSE IF Len(p) < 8 THEN Raised("Error")
               ELSE IF ~Utf8Decode(reg_bytes).ok THEN Raised("Error")
               ELSE IF ~ids.ok THEN Raised("Error")
               ELSE Reconstruct(reg_bytes, ids.ids, vars_bytes, expected_crc,
                                real_id_flag, is_latin1)
       ELSE LET reg_payload == lzma_decompress(c_registry)
                ids_data == lzma_decompress(c_ids)
                vars_data == lzma_decompress(c_vars)
                ids == unpack_ids(ids_data.data, real_id_flag)
            IN IF ~reg_payload.ok THEN OnCodecError
               ELSE IF ~Utf8Decode(reg_payload.data).ok THEN Raised("Error")
               ELSE IF ~ids_data.ok THEN OnCodecError
               ELSE IF ~ids.ok THEN Raised("Error")
               ELSE IF ~vars_data.ok THEN OnCodecError
               ELSE Reconstruct(reg_payload.data, ids.ids, vars_data.data, expected_crc,
                                real_id_flag, is_latin1)

\* ------------------------------------------------------------------------
\* Inputs: byte strings assembled from at most MaxPieces pieces
\* ------------------------------------------------------------------------
Pieces ==
  { <<49, 10>>,          \* 1 LF
    <<50>>,              \* 2
    <<35, 10>>,          \* # LF
    <<61, 13, 10>>,      \* = CR LF
    <<49, 61, 49, 10>>,  \* 1=1 LF
    <<233>>,             \* a byte that is Latin-1 but not UTF-8
    <<34, 97, 34>>,      \* "a"
    <<238, 128, 128>>,   \* U+E000 in UTF-8
    <<0>> }              \* NUL

RECURSIVE InputsOf(_)
InputsOf(n) ==
  IF n = 0 THEN {<<>>}
  ELSE LET shorter == InputsOf(n - 1)
       IN shorter \cup {b \o p : b \in shorter, p \in Pieces}

Repeat(b, n) == [i \in 1..(n * Len(b)) |-> b[((i - 1) % Len(b)) + 1]]

\* a long run of one line followed by at most one piece: enough lines for the
\* Strict tokenizer and enough sample bytes for the UNIFIED layout
\* the amounts by which a changed byte differs from the original
ByteDeltas == {1, 128}

LongInputs == {Repeat(<<49, 49, 49, 10>>, LongLines) \o p : p \in InputsOf(1)}

\* U+E001 in UTF-8, with at most one piece before it and one after it
MarkerInputs == {b \o <<238, 128, 129>> \o c : b \in InputsOf(1), c \in InputsOf(1)}

\* values that hold the bytes of the byte stuffing: with one control byte at
\* most, and with two
Cells1 == {<<>>, <<97>>, <<0>>, <<1>>, <<2>>, <<3>>}

Cells2 == Cells1 \cup {<<1, 3>>, <<1, 0>>, <<1, 1>>, <<0, 2>>, <<2, 1>>, <<97, 1>>}

\* a line of quoted values separated by spaces
QuotedLine(cells) ==
  Join(<<32>>, [i \in 1..Len(cells) |-> <<QUOTE>> \o cells[i] \o <<QUOTE>>]) \o <<LF>>

\* what follows the run of plain lines: one or two quoted lines of one or two
\* values, with two control bytes in all at most
StuffedTails ==
  {QuotedLine(<<v>>) : v \in Cells2}
    \cup {QuotedLine(<<v>>) \o QuotedLine(<<w>>) : v \in Cells1, w \in Cells1}
    \cup {QuotedLine(<<v, w>>) : v \in Cells1, w \in Cells1}

\* a line of one number and a run of #
FillerLine == <<49>> \o Repeat(<<35>>, FillerWidth) \o <<LF>>

\* control bytes stay under one in a hundred, so that the input is not taken
\* for binary
StuffedInputs == {Repeat(FillerLine, StuffLines) \o t : t \in StuffedTails}

\* four lines of two templates: 1 LF, 1 LF, # LF, 1 LF
PairedInputs == {<<49, 10, 49, 10, 35, 10, 49, 10>>}

\* lines with U+0100, a character that Latin-1 cannot encode: 1 U+0100 LF,
\* "U+0100" LF, and the first of them twice
WideInputs ==
  {<<49, 196, 128, 10>>, <<34, 196, 128, 34, 10>>, <<49, 196, 128, 10, 49, 196, 128, 10>>}

\* str(i).encode()
RECURSIVE Decimal(_)
Decimal(i) == IF i < 10 THEN <<48 + i>> ELSE Decimal(i \div 10) \o <<48 + (i % 10)>>

\* the lines rand_0, rand_1, ... of a file in which every line is unique
RandFile(n) == Concat([i \in 1..n |-> <<114, 97, 110, 100, 95>> \o Decimal(i - 1) \o <<LF>>])

RandInputs == {RandFile(2), RandFile(RandLines)}

\* four lines of two templates met twice each, and seven lines of three
\* templates of which the first two are met twice and the last three times:
\* # LF = LF # LF = LF and # LF = LF = LF # LF # CR LF # CR LF # CR LF
TiedInputs ==
  {<<35, 10, 61, 10, 35, 10, 61, 10>>,
   <<35, 10, 61, 10, 61, 10, 35, 10, 35, 13, 10, 35, 13, 10, 35, 13, 10>>}

Inputs ==
  InputsOf(MaxPieces) \cup LongInputs \cup MarkerInputs \cup StuffedInputs \cup PairedInputs
    \cup WideInputs \cup RandInputs \cup TiedInputs

\* ------------------------------------------------------------------------
\* State
\* ------------------------------------------------------------------------
VARIABLES
  input_data,           \* the bytes given to compress
  pc,                   \* position of the run
  template_map,         \* self.template_map: skeleton -> template id
  next_template_id,     \* self.next_template_id
  skeletons_list,       \* self.skeletons_list
  stream_template_ids,  \* self.stream_template_ids
  columns_storage,      \* self.columns_storage: template id -> columns
  mode_name,            \* self.mode_name
  text_data,            \* the decoded text
  is_latin1,
  lines,                \* text_data.splitlines(keepends=True)
  line_no,              \* number of lines taken by the extraction loop
  decision_mode,
  raw_registry, raw_ids, vars_buffer,
  block,                \* what compress returned
  body,                 \* the (c_reg, c_ids, c_vars) handed to decompress
  expected_crc,         \* the CRC handed to decompress
  given_flag,           \* the id_mode_flag handed to decompress
  dec,                  \* what decompress returned or raised
  driver_pc,            \* position of the program that drives the codec
  original_data,        \* the bytes of the input file
  chunk_size,           \* --chunk-size, 0 for None
  offset,               \* bytes of the input read so far
  chunk_idx,
  archive,              \* the bytes written by the chunk loop, read by do_decompress
  arc_pos,              \* bytes of the archive read so far
  restored_file,        \* the bytes do_decompress wrote
  cli_out,              \* the messages printed, in order
  exit_status,          \* the exit status of the process
  rig_call,             \* the codec wrapper method that was called
  rig_data,             \* the bytes handed to it
  helper,               \* how the run of the external 7-Zip helper ended
  rig_out,              \* what the wrapper returned or raised
  tmp_files,            \* the temporary files that exist in the working directory
  backend_calls,        \* the calls of the 7-Zip backends: position, method, random number, ending
  template_count,       \* len(self.skeletons_list) at serialization
  flag_byte,            \* the id_mode_flag that serialization chose
  unpacked_ids,         \* what _unpack_ids returned or raised
  call_no,              \* which compress call of the instance is running or has returned
  first_result          \* what the first compress call of the instance returned

vars == <<input_data, pc, template_map, next_template_id, skeletons_list,
          stream_template_ids, columns_storage, mode_name, text_data, is_latin1,
          lines, line_no, decision_mode, raw_registry, raw_ids, vars_buffer,
          block, body, expected_crc, given_flag, dec, driver_pc, original_data, chunk_size,
          offset, chunk_idx, archive, arc_pos, restored_file, cli_out, exit_status,
          rig_call, rig_data, helper, rig_out, tmp_files, backend_calls,
          template_count, flag_byte, unpacked_ids, call_no, first_result>>

self_vars == <<template_map, next_template_id, skeletons_list,
               stream_template_ids, columns_storage>>

raw_vars == <<raw_registry, raw_ids, vars_buffer>>

dec_vars == <<body, expected_crc, given_flag, dec>>

driver_vars == <<driver_pc, original_data, chunk_size, offset, chunk_idx, archive,
                 arc_pos, restored_file, cli_out, exit_status>>

local_vars == <<text_data, is_latin1, lines, line_no, decision_mode>>

rig_vars == <<rig_call, rig_data, helper, rig_out>>

tmp_vars == <<tmp_files, backend_calls>>

ids_vars == <<template_count, flag_byte, unpacked_ids>>

reuse_vars == <<call_no, first_result>>

NoBlock == [c_reg |-> <<>>, c_ids |-> <<>>, c_vars |-> <<>>, flag |-> -1, info |-> "none"]

NoResult == [status |-> "none", data |-> <<>>]

NoBody == [c_reg |-> <<>>, c_ids |-> <<>>, c_vars |-> <<>>]

BodyOf(b) == [c_reg |-> b.c_reg, c_ids |-> b.c_ids, c_vars |-> b.c_vars]

EmptyMap == [x \in {} |-> 0]

NoExit == -1

NoFlag == -1

\* CASTCompressor.__init__
Constructed ==
  /\ template_map = EmptyMap
  /\ next_template_id = 0
  /\ skeletons_list = <<>>
  /\ stream_template_ids = <<>>
  /\ columns_storage = EmptyMap
  /\ mode_name = "Strict"

\* nothing has been compressed or decoded yet
NothingRun ==
  /\ text_data = <<>>
  /\ is_latin1 = FALSE
  /\ lines = <<>>
  /\ line_no = 0
  /\ decision_mode = "none"
  /\ raw_registry = <<>>
  /\ raw_ids = <<>>
  /\ vars_buffer = <<>>
  /\ block = NoBlock
  /\ body = NoBody
  /\ expected_crc = NoCrc
  /\ given_flag = NoFlag
  /\ dec = NoResult

\* no file is being processed
NoDriver ==
  /\ driver_pc = "none"
  /\ original_data = <<>>
  /\ chunk_size = 0
  /\ offset = 0
  /\ chunk_idx = 0
  /\ archive = <<>>
  /\ arc_pos = 0
  /\ restored_file = <<>>
  /\ cli_out = <<>>
  /\ exit_status = NoExit

\* no codec wrapper has been called
NoRig ==
  /\ rig_call = "none"
  /\ rig_data = <<>>
  /\ helper = "none"
  /\ rig_out = NoResult

\* the calls of the 7-Zip backends that one process runs at a time
CallIds == {1, 2}

NoCall == [pc |-> "idle", op |-> "none", rnd |-> 0, end |-> "none"]

\* no backend call has begun
NoBackendCall ==
  /\ tmp_files = {}
  /\ backend_calls = [c \in CallIds |-> NoCall]

NoIds == [ok |-> TRUE, ids |-> <<>>]

\* the ID section alone is not being looked at
NoIdSection ==
  /\ template_count = 0
  /\ flag_byte = NoFlag
  /\ unpacked_ids = NoIds

NoFirstResult == [block |-> NoBlock, decision_mode |-> "none"]

\* the first compress call of the instance
FirstCall ==
  /\ call_no = 1
  /\ first_result = NoFirstResult

\* a fresh CASTCompressor and the input of its compress call
Init ==
  /\ input_data \in Inputs
  /\ pc = "start"
  /\ Constructed
  /\ NothingRun
  /\ NoDriver
  /\ NoRig
  /\ NoBackendCall
  /\ NoIdSection
  /\ FirstCall

\* compress, 1: binary sniff, decoding, strategy, split into lines
Classify ==
  /\ pc = "start"
  /\ IF is_likely_binary(input_data)
     THEN /\ block' = create_passthrough(input_data, "Passthrough [Binary]")
          /\ pc' = "returned"
          /\ UNCHANGED <<text_data, is_latin1, mode_name, lines>>
     ELSE LET u == Utf8Decode(input_data)
              t == IF u.ok THEN u.text ELSE Latin1Decode(input_data)
          IN /\ text_data' = t
             /\ is_latin1' = ~u.ok
             /\ mode_name' = analyze_best_strategy(mode_name, t)
             /\ lines' = splitlines(t, TRUE)
             /\ pc' = "extract"
             /\ UNCHANGED block
  /\ UNCHANGED <<rig_vars, tmp_vars, ids_vars, reuse_vars, input_data, self_vars, line_no, decision_mode, raw_vars, dec_vars,
                 driver_vars>>

\* the columns of a new template: [[] for _ in vars_found]
NewColumns_Seeded(vars_found) == [i \in 1..Len(vars_found) |-> <<vars_found[i]>>]

NewColumns(vars_found) == [i \in 1..Len(vars_found) |-> <<>>]

\* the values of one line appended to the columns of its template
AppendVars_FirstOnly(current_columns, vars_found) ==
  LET limit == Min(1, Min(Len(vars_found), Len(current_columns)))
  IN [i \in 1..Len(current_columns) |->
        IF i <= limit THEN Append(current_columns[i], vars_found[i])
        ELSE current_columns[i]]

AppendVars(current_columns, vars_found) ==
  LET limit == Min(Len(vars_found), Len(current_columns))
  IN [i \in 1..Len(current_columns) |->
        IF i <= limit THEN Append(current_columns[i], vars_found[i])
        ELSE current_columns[i]]

\* compress, 2: one turn of the loop over the lines
ExtractLine ==
  /\ pc = "extract"
  /\ line_no < Len(lines)
  /\ LET line == lines[line_no + 1]
         result == mask_line(mode_name, line)
     IN IF result.none
        THEN /\ block' = create_passthrough(input_data, "Collision Protected")
             /\ pc' = "returned"
             /\ UNCHANGED <<self_vars, line_no>>
        ELSE IF result.skeleton \notin DOMAIN template_map
                /\ OverUniqueLimit(next_template_id, Len(lines), mode_name)
        THEN /\ block' = create_passthrough(Utf8Encode(text_data), "Passthrough [Entropy]")
             /\ pc' = "returned"
             /\ UNCHANGED <<self_vars, line_no>>
        ELSE LET known == result.skeleton \in DOMAIN template_map
                 t_id == IF known THEN template_map[result.skeleton] ELSE next_template_id
                 storage == IF known THEN columns_storage
                            ELSE (t_id :> NewColumns(result.variables)) @@ columns_storage
             IN /\ template_map' = IF known THEN template_map
                                   ELSE (result.skeleton :> t_id) @@ template_map
                /\ skeletons_list' = IF known THEN skeletons_list
                                     ELSE Append(skeletons_list, result.skeleton)
                /\ next_template_id' = IF known THEN next_template_id
                                       ELSE next_template_id + 1
                /\ stream_template_ids' = Append(stream_template_ids, t_id)
                /\ columns_storage' =
                     [storage EXCEPT ![t_id] = AppendVars(storage[t_id], result.variables)]
                /\ line_no' = line_no + 1
                /\ UNCHANGED <<block, pc>>
  /\ UNCHANGED <<rig_vars, tmp_vars, ids_vars, reuse_vars, input_data, mode_name, text_data, is_latin1, lines, decision_mode,
                 raw_vars, dec_vars, driver_vars>>

\* compress, 3: layout decision and, for UNIFIED, the frequency remap.
\* c_len is len(zlib.compress(sample_buffer, level=1)).
Optimize ==
  /\ pc = "extract"
  /\ line_no = Len(lines)
  /\ \E c_len \in ZLIB_MIN_LEN..(SampleSize(skeletons_list, columns_storage)
                                   + ZLIB_OVERHEAD) :
       LET num_templates == Len(skeletons_list)
           sample_size == SampleSize(skeletons_list, columns_storage)
           mode == IF num_templates < SPLIT_TEMPLATES /\ sample_size > 0
                      /\ c_len > 0 /\ sample_size < RATIO_LIMIT * c_len
                   THEN "SPLIT" ELSE "UNIFIED"
           remap_table == RemapTable(stream_template_ids)
       IN /\ decision_mode' = mode
          /\ IF mode = "UNIFIED"
             THEN /\ skeletons_list' =
                       [new \in 1..Len(skeletons_list) |->
                          IF \E old \in DOMAIN remap_table : remap_table[old] = new - 1
                          THEN skeletons_list[
                                 (CHOOSE old \in DOMAIN remap_table :
                                    remap_table[old] = new - 1) + 1]
                          ELSE NoneValue]
                  /\ columns_storage' =
                       [new \in {remap_table[old] : old \in DOMAIN remap_table} |->
                          columns_storage[CHOOSE old \in DOMAIN remap_table :
                                            remap_table[old] = new]]
                  /\ stream_template_ids' =
                       [j \in 1..Len(stream_template_ids) |->
                          remap_table[stream_template_ids[j]]]
             ELSE UNCHANGED <<skeletons_list, columns_storage, stream_template_ids>>
  /\ pc' = "serialize"
  /\ UNCHANGED <<rig_vars, tmp_vars, ids_vars, reuse_vars, input_data, template_map, next_template_id, mode_name, text_data,
                 is_latin1, lines, line_no, raw_vars, block, dec_vars, driver_vars>>

\* compress, 4 and 5: registry, ids, variables buffer, codec
Serialize ==
  /\ pc = "serialize"
  /\ LET num_templates == Len(skeletons_list)
         registry == Utf8Encode(Join(<<REG_SEP>>, skeletons_list))
         low == IdModeFlag(num_templates)
         ids == PackIds(stream_template_ids, IdWidth(low))
         id_mode_flag == IF is_latin1 THEN low + LATIN1_BIT ELSE low
         buffer == VarsBuffer(columns_storage, 0, num_templates)
         solid_block == PackU32(Len(registry)) \o PackU32(Len(ids))
                        \o registry \o ids \o buffer
     IN /\ raw_registry' = registry
        /\ raw_ids' = ids
        /\ vars_buffer' = buffer
        /\ block' = IF decision_mode = "SPLIT"
                    THEN [c_reg |-> lzma_compress(registry), c_ids |-> lzma_compress(ids),
                          c_vars |-> lzma_compress(buffer), flag |-> id_mode_flag,
                          info |-> mode_name]
                    ELSE [c_reg |-> <<>>, c_ids |-> <<>>,
                          c_vars |-> lzma_compress(solid_block), flag |-> id_mode_flag,
                          info |-> mode_name]
  /\ pc' = "returned"
  /\ UNCHANGED <<rig_vars, tmp_vars, ids_vars, reuse_vars, input_data, self_vars, mode_name, text_data, is_latin1, lines,
                 line_no, decision_mode, dec_vars, driver_vars>>

\* the expected_crc a caller may hand over: the CRC32 of the input, another
\* value, or None
CrcChoices(b) == {crc32(b), (crc32(b) + 1) % CRC_MOD, NoCrc}

\* CASTDecompressor.decompress on the block that compress returned
Decompress ==
  /\ pc = "returned"
  /\ \E crc \in CrcChoices(input_data) :
       /\ expected_crc' = crc
       /\ dec' = decompress(block.c_reg, block.c_ids, block.c_vars, crc, block.flag)
  /\ body' = BodyOf(block)
  /\ given_flag' = block.flag
  /\ pc' = "decoded"
  /\ UNCHANGED <<rig_vars, tmp_vars, ids_vars, reuse_vars, input_data, self_vars, mode_name, text_data, is_latin1, lines,
                 line_no, decision_mode, raw_vars, block, driver_vars>>

\* one byte of a body part replaced by another value
SetByte(b, i, delta) == [b EXCEPT ![i] = (b[i] + delta) % 256]

\* CASTDecompressor.decompress on the block with one byte of its body changed
\* and the CRC32 of the input
DecompressChanged ==
  /\ pc = "returned"
  /\ \E part \in {"c_reg", "c_ids", "c_vars"}, delta \in ByteDeltas :
       \E i \in 1..Len(block[part]) :
         LET changed == [BodyOf(block) EXCEPT ![part] = SetByte(block[part], i, delta)]
         IN /\ body' = changed
            /\ dec' = decompress(changed.c_reg, changed.c_ids, changed.c_vars,
                                 crc32(input_data), block.flag)
  /\ expected_crc' = crc32(input_data)
  /\ given_flag' = block.flag
  /\ pc' = "decoded"
  /\ UNCHANGED <<rig_vars, tmp_vars, ids_vars, reuse_vars, input_data, self_vars, mode_name, text_data, is_latin1, lines,
                 line_no, decision_mode, raw_vars, block, driver_vars>>

Next == Classify \/ ExtractLine \/ Optimize \/ Serialize \/ Decompress

Spec == Init /\ [][Next]_vars

\* compress called once more on the instance, with the same input: __init__
\* is the only place that sets the fields of the instance, so they go into
\* the second call as the first call left them
CompressAgain ==
  /\ pc = "returned"
  /\ call_no = 1
  /\ first_result' = [block |-> block, decision_mode |-> decision_mode]
  /\ call_no' = 2
  /\ text_data' = <<>>
  /\ is_latin1' = FALSE
  /\ lines' = <<>>
  /\ line_no' = 0
  /\ decision_mode' = "none"
  /\ block' = NoBlock
  /\ pc' = "start"
  /\ UNCHANGED <<rig_vars, tmp_vars, ids_vars, input_data, self_vars, mode_name, raw_vars,
                 dec_vars, driver_vars>>

NextReuse == Classify \/ ExtractLine \/ Optimize \/ Serialize \/ CompressAgain

SpecReuse == Init /\ [][NextReuse]_vars

NextChanged == Classify \/ ExtractLine \/ Optimize \/ Serialize \/ DecompressChanged

SpecChanged == Init /\ [][NextChanged]_vars

\* flag bytes that are neither 255 nor, with bit 0x80 masked, one of 0..3
UndefinedFlags == {4, 127, 132}

\* CASTDecompressor.decompress on the block with another flag byte than the
\* one compress returned
DecompressFlagged ==
  /\ pc = "returned"
  /\ \E crc \in CrcChoices(input_data), flag \in UndefinedFlags :
       /\ expected_crc' = crc
       /\ given_flag' = flag
       /\ dec' = decompress(block.c_reg, block.c_ids, block.c_vars, crc, flag)
  /\ body' = BodyOf(block)
  /\ pc' = "decoded"
  /\ UNCHANGED <<rig_vars, tmp_vars, ids_vars, reuse_vars, input_data, self_vars, mode_name, text_data, is_latin1, lines,
                 line_no, decision_mode, raw_vars, block, driver_vars>>

NextFlagged == Classify \/ ExtractLine \/ Optimize \/ Serialize \/ DecompressFlagged

SpecFlagged == Init /\ [][NextFlagged]_vars

\* the sections of a block whose ID stream and columns no longer agree: the
\* last ID taken away (values are left over), the first ID asked for once
\* more (its columns are exhausted), or one more value in the last column
Alterations == {"ids_dropped", "ids_extra", "value_extra"}

LastId == stream_template_ids[Len(stream_template_ids)]

AlterationApplies(how) ==
  IF how = "ids_dropped" THEN Len(raw_ids) > 0 /\ Len(columns_storage[LastId]) > 0
  ELSE IF how = "ids_extra"
  THEN Len(raw_ids) > 0 /\ Len(columns_storage[stream_template_ids[1]]) > 0
  ELSE Len(vars_buffer) > 0
       /\ (block.flag % LATIN1_BIT = 3 => Len(columns_storage[0]) > 1)

AlteredIds(how) ==
  LET w == IdWidth(block.flag % LATIN1_BIT)
  IN IF how = "ids_dropped" THEN SubSeq(raw_ids, 1, Len(raw_ids) - w)
     ELSE IF how = "ids_extra" THEN raw_ids \o SubSeq(raw_ids, 1, w)
     ELSE raw_ids

AlteredVars(how) ==
  IF how = "value_extra"
  THEN SubSeq(vars_buffer, 1, Len(vars_buffer) - 1) \o <<ROW_SEP, 97, COL_SEP>>
  ELSE vars_buffer

\* CASTDecompressor.decompress on a SPLIT block of the sections that compress
\* serialized, altered in one of these ways, with the CRC32 of the input or
\* with None
DecompressAltered ==
  /\ pc = "returned"
  /\ block.flag # PASSTHROUGH_FLAG
  /\ \E how \in Alterations, crc \in {NoCrc, crc32(input_data)} :
       /\ AlterationApplies(how)
       /\ body' = [c_reg |-> lzma_compress(raw_registry),
                   c_ids |-> lzma_compress(AlteredIds(how)),
                   c_vars |-> lzma_compress(AlteredVars(how))]
       /\ expected_crc' = crc
  /\ dec' = decompress(body'.c_reg, body'.c_ids, body'.c_vars, expected_crc', block.flag)
  /\ given_flag' = block.flag
  /\ pc' = "decoded"
  /\ UNCHANGED <<rig_vars, tmp_vars, ids_vars, reuse_vars, input_data, self_vars, mode_name, text_data, is_latin1, lines,
                 line_no, decision_mode, raw_vars, block, driver_vars>>

NextAltered == Classify \/ ExtractLine \/ Optimize \/ Serialize \/ DecompressAltered

SpecAltered == Init /\ [][NextAltered]_vars

\* CASTDecompressor.decompress on the block that compress returned, with
\* bit 0x80 set in the flag byte
DecompressAsLatin1 ==
  /\ pc = "returned"
  /\ block.flag < LATIN1_BIT
  /\ \E crc \in CrcChoices(input_data) :
       /\ expected_crc' = crc
       /\ dec' = decompress(block.c_reg, block.c_ids, block.c_vars, crc,
                            block.flag + LATIN1_BIT)
  /\ body' = BodyOf(block)
  /\ given_flag' = block.flag + LATIN1_BIT
  /\ pc' = "decoded"
  /\ UNCHANGED <<rig_vars, tmp_vars, ids_vars, reuse_vars, input_data, self_vars, mode_name, text_data, is_latin1, lines,
                 line_no, decision_mode, raw_vars, block, driver_vars>>

NextLatin1 == Classify \/ ExtractLine \/ Optimize \/ Serialize \/ DecompressAsLatin1

SpecLatin1 == Init /\ [][NextLatin1]_vars

\* ------------------------------------------------------------------------
\* The chunk loops and the archive
\* ------------------------------------------------------------------------
MaxChunk == 4
MaxFrames == 2
HEADER_LEN == 17

\* the parameters of CASTCompressor.compress besides self
compress_parameters == {"input_data"}

\* a call binds when every keyword it passes is a parameter; otherwise Python
\* raises TypeError before the body runs
Binds(parameters, keywords) == keywords \subseteq parameters

\* f.read(n) at position pos; n = -1 reads the rest
Read(f, pos, n) ==
  IF n < 0 THEN SubSeq(f, pos + 1, Len(f))
  ELSE SubSeq(f, pos + 1, Min(pos + n, Len(f)))

\* header and body of one frame:
\* struct.pack("<IIIIB", crc, len(c_reg), len(c_ids), len(c_vars), flag) + body
Frame(crc, b) ==
  PackU32(crc) \o PackU32(Len(b.c_reg)) \o PackU32(Len(b.c_ids))
    \o PackU32(Len(b.c_vars)) \o <<b.flag>> \o b.c_reg \o b.c_ids \o b.c_vars

\* the chunks a file of n bytes is read in, 1-based: chunk k of size cs
NumChunks(n, cs) == IF cs = 0 THEN (IF n > 0 THEN 1 ELSE 0) ELSE (n + cs - 1) \div cs

ChunkOf(data, cs, k) ==
  IF cs = 0 THEN data ELSE SubSeq(data, (k - 1) * cs + 1, Min(k * cs, Len(data)))

\* archives that exist before the program runs: frames of passthrough blocks
BinaryChunks == {<<0>>, <<0, 49>>}

RECURSIVE ArchivesOf(_)
ArchivesOf(n) ==
  IF n = 0 THEN {<<>>}
  ELSE LET shorter == ArchivesOf(n - 1)
       IN shorter \cup
          {a \o Frame(crc32(c), create_passthrough(c, "Passthrough [Binary]")) :
             a \in shorter, c \in BinaryChunks}

\* a block as compress builds it for the one line 1 LF, in SPLIT layout
LineBlock ==
  [c_reg |-> lzma_compress(Utf8Encode(<<VAR_PLACEHOLDER, LF>>)),
   c_ids |-> lzma_compress(<<>>),
   c_vars |-> lzma_compress(<<49, COL_SEP>>),
   flag |-> 3, info |-> "Aggressive"]

\* frames that do not decode to the data their CRC field stands for: a CRC
\* field that is off by one, on a passthrough block and on a block of
\* templates, and a body that is no codec stream
FaultyFrames ==
  { Frame((crc32(<<0>>) + 1) % CRC_MOD, create_passthrough(<<0>>, "Passthrough [Binary]")),
    Frame((crc32(<<49, LF>>) + 1) % CRC_MOD, LineBlock),
    Frame(crc32(<<0>>), [create_passthrough(<<0>>, "Passthrough [Binary]")
                           EXCEPT !.c_vars = <<0, 0, 0, 0>>]) }

\* archives with a faulty frame, after at most one sound frame
FaultyArchives ==
  {a \o f : a \in ArchivesOf(1) \cup {Frame(crc32(<<49, LF>>), LineBlock)}, f \in FaultyFrames}

\* archives cut short: every proper prefix of an archive
TruncatedArchives ==
  UNION {{SubSeq(a, 1, n) : n \in 1..(Len(a) - 1)} : a \in ArchivesOf(MaxFrames)}

StoredArchives == ArchivesOf(MaxFrames) \cup TruncatedArchives \cup FaultyArchives

\* cli.py -c <in> <out> --chunk-size S, or cli.py -d <in> <out> on an archive,
\* or cli.py -v <in> on an archive
InitCli ==
  /\ input_data = <<>>
  /\ pc = "idle"
  /\ Constructed
  /\ NothingRun
  /\ offset = 0
  /\ chunk_idx = 0
  /\ arc_pos = 0
  /\ restored_file = <<>>
  /\ cli_out = <<>>
  /\ exit_status = NoExit
  /\ NoRig
  /\ NoBackendCall
  /\ NoIdSection
  /\ FirstCall
  /\ \/ /\ driver_pc = "do_compress"
        /\ original_data \in Inputs
        /\ chunk_size \in 0..MaxChunk
        /\ archive = <<>>
     \/ /\ driver_pc \in {"do_decompress", "do_verify"}
        /\ original_data = <<>>
        /\ chunk_size = 0
        /\ archive \in StoredArchives

\* do_compress: one turn of its loop. The compressor is constructed and
\* compress is called with the keyword dict_size; the except clause prints
\* the error and returns, and the process ends with status 0.
DoCompressTurn ==
  /\ driver_pc = "do_compress"
  /\ LET read_amount == IF chunk_size # 0 THEN chunk_size ELSE -1
         chunk_data == Read(original_data, offset, read_amount)
     IN IF Len(chunk_data) = 0
        THEN /\ cli_out' = cli_out \o <<"Done", "Compression completed">>
             /\ driver_pc' = "compressed"
             /\ exit_status' = 0
             /\ UNCHANGED <<offset, chunk_idx, input_data, pc, self_vars, mode_name>>
        ELSE /\ offset' = offset + Len(chunk_data)
             /\ chunk_idx' = chunk_idx + 1
             /\ template_map' = EmptyMap
             /\ next_template_id' = 0
             /\ skeletons_list' = <<>>
             /\ stream_template_ids' = <<>>
             /\ columns_storage' = EmptyMap
             /\ mode_name' = "Strict"
             /\ IF Binds(compress_parameters, {"input_data", "dict_size"})
                THEN /\ input_data' = chunk_data
                     /\ pc' = "start"
                     /\ driver_pc' = "cli_compress"
                     /\ UNCHANGED <<cli_out, exit_status>>
                ELSE /\ cli_out' = Append(cli_out, "Error during compression")
                     /\ driver_pc' = "compressed"
                     /\ exit_status' = 0
                     /\ UNCHANGED <<input_data, pc>>
  /\ UNCHANGED <<rig_vars, tmp_vars, ids_vars, reuse_vars, local_vars, raw_vars, block, dec_vars, original_data, chunk_size,
                 archive, arc_pos, restored_file>>

\* do_compress: the frame of the chunk written to the output file. It needs
\* the compress call to return, which it does not: see DoCompressTurn.
WriteFrame ==
  /\ driver_pc = "cli_compress"
  /\ pc = "returned"
  /\ archive' = archive \o Frame(crc32(input_data), block)
  /\ driver_pc' = "do_compress"
  /\ pc' = "idle"
  /\ UNCHANGED <<rig_vars, tmp_vars, ids_vars, reuse_vars, input_data, self_vars, mode_name, local_vars, raw_vars, block,
                 dec_vars, original_data, chunk_size, offset, chunk_idx, arc_pos,
                 restored_file, cli_out, exit_status>>

\* cli.py -d <archive> <out> run on the file that cli.py -c wrote
MainDecompress ==
  /\ driver_pc = "compressed"
  /\ driver_pc' = "do_decompress"
  /\ arc_pos' = 0
  /\ chunk_idx' = 0
  /\ restored_file' = <<>>
  /\ exit_status' = NoExit
  /\ UNCHANGED <<rig_vars, tmp_vars, ids_vars, reuse_vars, input_data, pc, self_vars, mode_name, local_vars, raw_vars, block,
                 dec_vars, original_data, chunk_size, offset, archive, cli_out>>

\* struct.unpack("<IIIIB", header_data)
UnpackHeader(header_data) ==
  [expected_crc |-> UnpackU32(header_data, 1),
   l_reg |-> UnpackU32(header_data, 5),
   l_ids |-> UnpackU32(header_data, 9),
   l_vars |-> UnpackU32(header_data, 13),
   id_flag |-> header_data[17]]

\* the body cut into c_reg, c_ids and c_vars
SliceBody(body_data, h) ==
  [c_reg |-> SubSeq(body_data, 1, h.l_reg),
   c_ids |-> SubSeq(body_data, h.l_reg + 1, h.l_reg + h.l_ids),
   c_vars |-> SubSeq(body_data, h.l_reg + h.l_ids + 1, h.l_reg + h.l_ids + h.l_vars)]

\* a fresh CASTDecompressor run on the frame at the read position
DecodeFrame(a, pos) ==
  LET h == UnpackHeader(Read(a, pos, HEADER_LEN))
      b == SliceBody(Read(a, pos + HEADER_LEN, h.l_reg + h.l_ids + h.l_vars), h)
  IN decompress(b.c_reg, b.c_ids, b.c_vars, h.expected_crc, h.id_flag)

\* len(header_data), and body_len and len(body_data) once the header is whole
HeaderLen(a, pos) == Len(Read(a, pos, HEADER_LEN))

BodyLen(a, pos) ==
  LET h == UnpackHeader(Read(a, pos, HEADER_LEN))
  IN h.l_reg + h.l_ids + h.l_vars

BodyRead(a, pos) == Len(Read(a, pos + HEADER_LEN, BodyLen(a, pos)))

\* do_decompress: one turn of its loop; dec is what decompress returned or
\* raised for the frame of the turn
DoDecompressTurn ==
  /\ driver_pc = "do_decompress"
  /\ IF HeaderLen(archive, arc_pos) = 0
     THEN /\ cli_out' = Append(cli_out, "Decompression done")
          /\ driver_pc' = "exited"
          /\ exit_status' = 0
          /\ UNCHANGED <<arc_pos, chunk_idx, restored_file, dec>>
     ELSE IF HeaderLen(archive, arc_pos) < HEADER_LEN
     THEN /\ cli_out' = cli_out \o <<"Unexpected EOF reading header", "Decompression done">>
          /\ driver_pc' = "exited"
          /\ exit_status' = 0
          /\ UNCHANGED <<arc_pos, chunk_idx, restored_file, dec>>
     ELSE IF BodyRead(archive, arc_pos) # BodyLen(archive, arc_pos)
     THEN /\ cli_out' = cli_out \o <<"Truncated file in body", "Decompression done">>
          /\ driver_pc' = "exited"
          /\ exit_status' = 0
          /\ chunk_idx' = chunk_idx + 1
          /\ UNCHANGED <<arc_pos, restored_file, dec>>
     ELSE /\ dec' = DecodeFrame(archive, arc_pos)
          /\ chunk_idx' = chunk_idx + 1
          /\ IF dec'.status # "ok"
             THEN /\ cli_out' = Append(cli_out, "Error during decompression")
                  /\ driver_pc' = "exited"
                  /\ exit_status' = 0
                  /\ UNCHANGED <<arc_pos, restored_file>>
             ELSE /\ restored_file' = restored_file \o dec'.data
                  /\ arc_pos' = arc_pos + HEADER_LEN + BodyLen(archive, arc_pos)
                  /\ UNCHANGED <<cli_out, driver_pc, exit_status>>
  /\ UNCHANGED <<rig_vars, tmp_vars, ids_vars, reuse_vars, input_data, pc, self_vars, mode_name, local_vars, raw_vars, block,
                 body, expected_crc, given_flag, original_data, chunk_size, offset,
                 archive>>

\* the CRC field of the frame at the read position
HeaderCrc(a, pos) == UnpackHeader(Read(a, pos, HEADER_LEN)).expected_crc

\* do_verify_standalone: one turn of its loop. sys.exit(1) is no Exception,
\* so it leaves the function and ends the process with status 1.
DoVerifyTurn ==
  /\ driver_pc = "do_verify"
  /\ IF HeaderLen(archive, arc_pos) = 0
     THEN /\ cli_out' = Append(cli_out, "FILE INTEGRITY VERIFIED")
          /\ driver_pc' = "exited"
          /\ exit_status' = 0
          /\ UNCHANGED <<arc_pos, chunk_idx, dec>>
     ELSE IF HeaderLen(archive, arc_pos) < HEADER_LEN
     THEN /\ cli_out' = cli_out \o <<"Partial header at end of file", "FILE INTEGRITY VERIFIED">>
          /\ driver_pc' = "exited"
          /\ exit_status' = 0
          /\ UNCHANGED <<arc_pos, chunk_idx, dec>>
     ELSE IF BodyRead(archive, arc_pos) # BodyLen(archive, arc_pos)
     THEN /\ cli_out' = Append(cli_out, "Truncated file at chunk")
          /\ driver_pc' = "exited"
          /\ exit_status' = 1
          /\ chunk_idx' = chunk_idx + 1
          /\ UNCHANGED <<arc_pos, dec>>
     ELSE /\ dec' = DecodeFrame(archive, arc_pos)
          /\ chunk_idx' = chunk_idx + 1
          /\ IF dec'.status # "ok"
             THEN /\ cli_out' = Append(cli_out, "CRASH: Decompression error")
                  /\ driver_pc' = "exited"
                  /\ exit_status' = 1
                  /\ UNCHANGED arc_pos
             ELSE IF crc32(dec'.data) # HeaderCrc(archive, arc_pos)
             THEN /\ cli_out' = Append(cli_out, "FAILURE: CRC Mismatch")
                  /\ driver_pc' = "exited"
                  /\ exit_status' = 1
                  /\ UNCHANGED arc_pos
             ELSE /\ arc_pos' = arc_pos + HEADER_LEN + BodyLen(archive, arc_pos)
                  /\ UNCHANGED <<cli_out, driver_pc, exit_status>>
  /\ UNCHANGED <<rig_vars, tmp_vars, ids_vars, reuse_vars, input_data, pc, self_vars, mode_name, local_vars, raw_vars, block,
                 body, expected_crc, given_flag, original_data, chunk_size, offset,
                 archive, restored_file>>

NextCli == DoCompressTurn \/ MainDecompress \/ DoDecompressTurn \/ DoVerifyTurn

SpecCli == InitCli /\ [][NextCli]_vars

\* run_benchmarks.py, the chunked CAST measurement of one file
InitBench ==
  /\ input_data = <<>>
  /\ pc = "idle"
  /\ Constructed
  /\ NothingRun
  /\ driver_pc = "bench_loop"
  /\ original_data \in InputsOf(MaxPieces)
  /\ chunk_size \in 1..MaxChunk
  /\ offset = 0
  /\ chunk_idx = 0
  /\ archive = <<>>
  /\ arc_pos = 0
  /\ restored_file = <<>>
  /\ cli_out = <<>>
  /\ exit_status = NoExit
  /\ NoRig
  /\ NoBackendCall
  /\ NoIdSection
  /\ FirstCall

\* the chunk loop: the next chunk is sliced off, a compressor is constructed
\* for it and compress is called on it
BenchNextChunk_SharedCompressor ==
  /\ driver_pc = "bench_loop"
  /\ offset < Len(original_data)
  /\ input_data' = SubSeq(original_data, offset + 1,
                          Min(offset + chunk_size, Len(original_data)))
  /\ offset' = offset + chunk_size
  /\ chunk_idx' = chunk_idx + 1
  /\ UNCHANGED <<self_vars, mode_name>>
  /\ text_data' = <<>>
  /\ is_latin1' = FALSE
  /\ lines' = <<>>
  /\ line_no' = 0
  /\ decision_mode' = "none"
  /\ block' = NoBlock
  /\ pc' = "start"
  /\ driver_pc' = "bench_compress"
  /\ UNCHANGED <<rig_vars, tmp_vars, ids_vars, reuse_vars, raw_vars, dec_vars, original_data, chunk_size, archive, arc_pos,
                 restored_file, cli_out, exit_status>>

BenchNextChunk ==
  /\ driver_pc = "bench_loop"
  /\ offset < Len(original_data)
  /\ input_data' = SubSeq(original_data, offset + 1,
                          Min(offset + chunk_size, Len(original_data)))
  /\ offset' = offset + chunk_size
  /\ chunk_idx' = chunk_idx + 1
  /\ template_map' = EmptyMap
  /\ next_template_id' = 0
  /\ skeletons_list' = <<>>
  /\ stream_template_ids' = <<>>
  /\ columns_storage' = EmptyMap
  /\ mode_name' = "Strict"
  /\ text_data' = <<>>
  /\ is_latin1' = FALSE
  /\ lines' = <<>>
  /\ line_no' = 0
  /\ decision_mode' = "none"
  /\ block' = NoBlock
  /\ pc' = "start"
  /\ driver_pc' = "bench_compress"
  /\ UNCHANGED <<rig_vars, tmp_vars, ids_vars, reuse_vars, raw_vars, dec_vars, original_data, chunk_size, archive, arc_pos,
                 restored_file, cli_out, exit_status>>

\* the chunk loop: header and body of the chunk appended to full_blob
BenchAppendFrame ==
  /\ driver_pc = "bench_compress"
  /\ pc = "returned"
  /\ archive' = archive \o Frame(crc32(input_data), block)
  /\ driver_pc' = "bench_loop"
  /\ pc' = "idle"
  /\ UNCHANGED <<rig_vars, tmp_vars, ids_vars, reuse_vars, input_data, self_vars, mode_name, local_vars, raw_vars, block,
                 dec_vars, original_data, chunk_size, offset, chunk_idx, arc_pos,
                 restored_file, cli_out, exit_status>>

NextBench ==
  BenchNextChunk \/ Classify \/ ExtractLine \/ Optimize \/ Serialize \/ BenchAppendFrame

SpecBench == InitBench /\ [][NextBench]_vars

\* ------------------------------------------------------------------------
\* The codec wrappers that may run the external 7-Zip helper
\* ------------------------------------------------------------------------
\* how a run of the helper can end: exit status 0 with its output, a non-zero
\* exit status, no run at all (the start of the process raises), or exit
\* status 0 with no byte of output
HelperOutcomes == {"ok", "nonzero", "raised", "empty"}

Returned(data) == [status |-> "ok", data |-> data]

\* LzmaBackend.compress
LzmaBackend_compress(data) ==
  IF data = <<>> THEN Returned(<<>>) ELSE Returned(lzma_compress(data))

\* LzmaDecompressorBackend.decompress
LzmaDecompressorBackend_decompress(data) ==
  IF data = <<>> THEN Returned(<<>>)
  ELSE IF lzma_decompress(data).ok THEN Returned(lzma_decompress(data).data)
  ELSE Raised("LZMAError")

\* SevenZipBackend.compress: CalledProcessError becomes RuntimeError, any
\* other exception passes through, and the output file is returned as read
SevenZipBackend_compress(data, h) ==
  IF data = <<>> THEN Returned(<<>>)
  ELSE IF h = "raised" THEN Raised("OSError")
  ELSE IF h = "nonzero" THEN Raised("RuntimeError")
  ELSE IF h = "empty" THEN Returned(<<>>)
  ELSE Returned(lzma_compress(data))

\* SevenZipDecompressorBackend.decompress: CalledProcessError gives b""
SevenZipDecompressorBackend_decompress(data, h) ==
  IF data = <<>> THEN Returned(<<>>)
  ELSE IF h = "raised" THEN Raised("OSError")
  ELSE IF h = "nonzero" THEN Returned(<<>>)
  ELSE IF h = "empty" THEN Returned(<<>>)
  ELSE Returned(lzma_decompress(data).data)

\* RuntimeLzmaCompressor("7zip").compress
RuntimeLzmaCompressor_compress(data, h) ==
  LET res == SevenZipBackend_compress(data, h)
  IN IF res.status # "ok" THEN LzmaBackend_compress(data) ELSE res

\* RuntimeLzmaDecompressor("7zip").decompress
RuntimeLzmaDecompressor_decompress(data, h) ==
  LET res == SevenZipDecompressorBackend_decompress(data, h)
  IN IF res.status # "ok" THEN LzmaDecompressorBackend_decompress(data)
     ELSE IF res.data = <<>> /\ data # <<>> THEN LzmaDecompressorBackend_decompress(data)
     ELSE res

\* lzma.decompress as the 7z_support module calls it
LzmaDecompress(data) ==
  IF lzma_decompress(data).ok THEN Returned(lzma_decompress(data).data)
  ELSE Raised("LZMAError")

\* CASTDecompressor._7z_decompress of the 7z_support module
SevenZ_decompress(data, h) ==
  IF h \in {"raised", "nonzero"} THEN LzmaDecompress(data)
  ELSE IF h = "empty" THEN Returned(<<>>)
  ELSE Returned(lzma_decompress(data).data)

\* the bytes a decompressing wrapper is called on: the LZMA stream of the
\* input, or the input itself where it is not empty
StreamsOf(b) == {lzma_compress(b)} \cup ({b} \ {<<>>})

\* the helper can end well only on a stream it can decode
HelperMayEnd(h, data) == h = "ok" => lzma_decompress(data).ok

\* one call of RuntimeLzmaCompressor("7zip").compress
RigCompress ==
  /\ rig_call = "none"
  /\ \E h \in HelperOutcomes :
       /\ helper' = IF input_data = <<>> THEN "none" ELSE h
       /\ rig_out' = RuntimeLzmaCompressor_compress(input_data, h)
  /\ rig_call' = "RuntimeLzmaCompressor.compress"
  /\ rig_data' = input_data
  /\ UNCHANGED <<tmp_vars, ids_vars, reuse_vars, input_data, pc, self_vars, mode_name, local_vars, raw_vars,
                 block, dec_vars, driver_vars>>

\* one call of RuntimeLzmaDecompressor("7zip").decompress
RigDecompress ==
  /\ rig_call = "none"
  /\ \E data \in StreamsOf(input_data), h \in HelperOutcomes :
       /\ HelperMayEnd(h, data)
       /\ helper' = h
       /\ rig_data' = data
       /\ rig_out' = RuntimeLzmaDecompressor_decompress(data, h)
  /\ rig_call' = "RuntimeLzmaDecompressor.decompress"
  /\ UNCHANGED <<tmp_vars, ids_vars, reuse_vars, input_data, pc, self_vars, mode_name, local_vars, raw_vars,
                 block, dec_vars, driver_vars>>

\* one call of CASTDecompressor._7z_decompress of the 7z_support module
SevenZDecompress ==
  /\ rig_call = "none"
  /\ \E data \in StreamsOf(input_data), h \in HelperOutcomes :
       /\ HelperMayEnd(h, data)
       /\ helper' = h
       /\ rig_data' = data
       /\ rig_out' = SevenZ_decompress(data, h)
  /\ rig_call' = "_7z_decompress"
  /\ UNCHANGED <<tmp_vars, ids_vars, reuse_vars, input_data, pc, self_vars, mode_name, local_vars, raw_vars,
                 block, dec_vars, driver_vars>>

NextCodec == RigCompress \/ RigDecompress \/ SevenZDecompress

SpecCodec == Init /\ [][NextCodec]_vars

\* ------------------------------------------------------------------------
\* The temporary files of SevenZipBackend.compress and
\* SevenZipDecompressorBackend.decompress, for calls running at the same time
\* ------------------------------------------------------------------------
\* random.randint(0, 1000000) draws from 0..MaxRnd
MaxRnd == 1

\* the file names of a call; os.getpid() is the same for all calls
tmp_in(c) == [name |-> IF c.op = "compress" THEN "temp_in" ELSE "temp_dec_in", rnd |-> c.rnd]

tmp_out(c) == [name |-> "temp_out", rnd |-> c.rnd]

TempNames(c) == IF c.op = "compress" THEN {tmp_in(c), tmp_out(c)} ELSE {tmp_in(c)}

OtherVars ==
  <<input_data, pc, self_vars, mode_name, local_vars, raw_vars, block, dec_vars,
    driver_vars, rig_vars, ids_vars, reuse_vars>>

\* the call begins on non-empty data: the random number and the names
BackendBegin ==
  /\ \E c \in CallIds, op \in {"compress", "decompress"}, rnd \in 0..MaxRnd :
       /\ backend_calls[c].pc = "idle"
       /\ backend_calls' = [backend_calls EXCEPT ![c] = [pc |-> "write", op |-> op, rnd |-> rnd,
                                                    end |-> "none"]]
  /\ UNCHANGED <<tmp_files, OtherVars>>

\* open(tmp_in, "wb") and the write: open may raise and leave no file, the
\* write may raise after the file was created
BackendWriteInput ==
  /\ \E c \in CallIds, end \in {"written", "open_raised", "write_raised"} :
       /\ backend_calls[c].pc = "write"
       /\ tmp_files' = IF end = "open_raised" THEN tmp_files
                       ELSE tmp_files \cup {tmp_in(backend_calls[c])}
       /\ backend_calls' = [backend_calls EXCEPT
                              ![c].pc = IF end = "written" THEN "run" ELSE "finally",
                              ![c].end = IF end = "written" THEN "none" ELSE "raised"]
  /\ UNCHANGED OtherVars

\* subprocess.run of the helper. On compress an ending with exit status 0
\* leaves the output file, and a failing run may leave one; on decompress
\* the output is the captured stdout.
BackendRunHelper ==
  /\ \E c \in CallIds, h \in HelperOutcomes, left \in BOOLEAN :
       LET call == backend_calls[c]
       IN /\ call.pc = "run"
          /\ h = "ok" => tmp_in(call) \in tmp_files
          /\ h \in {"ok", "empty"} => left
          /\ h = "raised" => ~left
          /\ call.op = "decompress" => ~left
          /\ tmp_files' = IF left THEN tmp_files \cup {tmp_out(call)} ELSE tmp_files
          /\ backend_calls' = [backend_calls EXCEPT
                                 ![c].pc = IF call.op = "compress" /\ h \in {"ok", "empty"}
                                           THEN "read" ELSE "finally",
                                 ![c].end = IF call.op = "compress"
                                            THEN (IF h \in {"ok", "empty"} THEN "none"
                                                  ELSE "raised")
                                            ELSE (IF h = "raised" THEN "raised"
                                                  ELSE "returned")]
  /\ UNCHANGED OtherVars

\* open(tmp_out, "rb") and the read, which raise when the file is not there
BackendReadOutput ==
  /\ \E c \in CallIds :
       /\ backend_calls[c].pc = "read"
       /\ backend_calls' = [backend_calls EXCEPT
                              ![c].pc = "finally",
                              ![c].end = IF tmp_out(backend_calls[c]) \in tmp_files
                                         THEN "returned" ELSE "raised"]
  /\ UNCHANGED <<tmp_files, OtherVars>>

\* the finally clause: the files of the call's names that exist are removed
BackendCleanup ==
  /\ \E c \in CallIds :
       /\ backend_calls[c].pc = "finally"
       /\ tmp_files' = tmp_files \ TempNames(backend_calls[c])
       /\ backend_calls' = [backend_calls EXCEPT ![c].pc = "ended"]
  /\ UNCHANGED OtherVars

NextTemp ==
  BackendBegin \/ BackendWriteInput \/ BackendRunHelper \/ BackendReadOutput \/ BackendCleanup

\* the data handed to the backends
InitTemp ==
  /\ input_data \in InputsOf(1) \ {<<>>}
  /\ pc = "start"
  /\ Constructed
  /\ NothingRun
  /\ NoDriver
  /\ NoRig
  /\ NoBackendCall
  /\ NoIdSection
  /\ FirstCall

SpecTemp == InitTemp /\ [][NextTemp]_vars

\* ------------------------------------------------------------------------
\* The ID section on its own: the flag and width chosen from the number of
\* templates, the packed stream, and what _unpack_ids makes of it
\* ------------------------------------------------------------------------
MaxStream == 2

\* template counts on both sides of every threshold of the flag choice
TemplateCounts == {0, 1, 2, 3, 255, 256, 257, 65535, 65536, 65537}

\* IDs at the ends of each width, of those a block with n templates can hold
BoundaryIds(n) == {i \in {0, 1, 2, 254, 255, 256, 65534, 65535, 65536} : i < n}

StreamsBelow(n) ==
  UNION {[1..k -> BoundaryIds(n)] : k \in 0..MaxStream}

\* a compressor at serialization, with n templates and a stream of their IDs
InitIds ==
  /\ template_count \in TemplateCounts
  /\ stream_template_ids \in StreamsBelow(template_count)
  /\ is_latin1 \in BOOLEAN
  /\ flag_byte = NoFlag
  /\ unpacked_ids = NoIds
  /\ input_data = <<>>
  /\ pc = "serialize"
  /\ template_map = EmptyMap
  /\ next_template_id = template_count
  /\ skeletons_list = <<>>
  /\ columns_storage = EmptyMap
  /\ mode_name = "Strict"
  /\ text_data = <<>>
  /\ lines = <<>>
  /\ line_no = 0
  /\ decision_mode = "none"
  /\ raw_registry = <<>>
  /\ raw_ids = <<>>
  /\ vars_buffer = <<>>
  /\ block = NoBlock
  /\ body = NoBody
  /\ expected_crc = NoCrc
  /\ given_flag = NoFlag
  /\ dec = NoResult
  /\ NoDriver
  /\ NoRig
  /\ NoBackendCall
  /\ FirstCall

\* compress, 4: the flag from the number of templates and the packed stream
SerializeIds ==
  /\ pc = "serialize"
  /\ LET low == IdModeFlag(template_count)
     IN /\ raw_ids' = PackIds(stream_template_ids, IdWidth(low))
        /\ flag_byte' = IF is_latin1 THEN low + LATIN1_BIT ELSE low
  /\ pc' = "returned"
  /\ UNCHANGED <<rig_vars, tmp_vars, reuse_vars, template_count, unpacked_ids, input_data, self_vars,
                 mode_name, text_data, is_latin1, lines, line_no, decision_mode,
                 raw_registry, vars_buffer, block, dec_vars, driver_vars>>

\* decompress: template_ids is [] under flag 3 and _unpack_ids of the section otherwise
UnpackIds ==
  /\ pc = "returned"
  /\ LET real_id_flag == flag_byte % LATIN1_BIT
     IN unpacked_ids' = IF real_id_flag = 3 THEN [ok |-> TRUE, ids |-> <<>>]
                        ELSE unpack_ids(raw_ids, real_id_flag)
  /\ pc' = "decoded"
  /\ UNCHANGED <<rig_vars, tmp_vars, reuse_vars, template_count, flag_byte, input_data, self_vars,
                 mode_name, local_vars, raw_vars, block, dec_vars, driver_vars>>

NextIds == SerializeIds \/ UnpackIds

SpecIds == InitIds /\ [][NextIds]_vars

\* ------------------------------------------------------------------------
\* WarehouseForeman and WarehouseUnloader, with the in-process LZMA rig
\* ------------------------------------------------------------------------
\* self.rig.compress with RuntimeLzmaCompressor("lzma") as the rig
rig_compress(data) == LzmaBackend_compress(data).data

\* WarehouseForeman._create_passthrough: c_vars = data_bytes
WarehouseForeman_create_passthrough(data_bytes, reason) ==
  [c_reg |-> <<>>, c_ids |-> <<>>, c_vars |-> data_bytes,
   flag |-> PASSTHROUGH_FLAG, info |-> reason]

\* WarehouseForeman.inspect_the_load: the fail-safe and the masking callback
inspect_the_load(mode, line) == mask_line(mode, line)

\* load_the_truck, 1: binary sniff, decoding, strategy, split into lines
LoadClassify ==
  /\ pc = "start"
  /\ IF is_likely_binary(input_data)
     THEN /\ block' = WarehouseForeman_create_passthrough(input_data, "Passthrough [Binary]")
          /\ pc' = "returned"
          /\ UNCHANGED <<text_data, is_latin1, mode_name, lines>>
     ELSE LET u == Utf8Decode(input_data)
              t == IF u.ok THEN u.text ELSE Latin1Decode(input_data)
          IN /\ text_data' = t
             /\ is_latin1' = ~u.ok
             /\ mode_name' = analyze_best_strategy(mode_name, t)
             /\ lines' = splitlines(t, TRUE)
             /\ pc' = "extract"
             /\ UNCHANGED block
  /\ UNCHANGED <<rig_vars, tmp_vars, ids_vars, reuse_vars, input_data, self_vars, line_no, decision_mode, raw_vars,
                 dec_vars, driver_vars>>

\* load_the_truck, 2: one turn of the loop over the lines
LoadExtractLine ==
  /\ pc = "extract"
  /\ line_no < Len(lines)
  /\ LET line == lines[line_no + 1]
         result == inspect_the_load(mode_name, line)
     IN IF result.none
        THEN /\ block' = WarehouseForeman_create_passthrough(input_data, "Collision Protected")
             /\ pc' = "returned"
             /\ UNCHANGED <<self_vars, line_no>>
        ELSE IF result.skeleton \notin DOMAIN template_map
                /\ OverUniqueLimit(next_template_id, Len(lines), mode_name)
        THEN /\ block' = WarehouseForeman_create_passthrough(Utf8Encode(text_data),
                                                             "Passthrough [Entropy]")
             /\ pc' = "returned"
             /\ UNCHANGED <<self_vars, line_no>>
        ELSE LET known == result.skeleton \in DOMAIN template_map
                 t_id == IF known THEN template_map[result.skeleton] ELSE next_template_id
                 storage == IF known THEN columns_storage
                            ELSE (t_id :> NewColumns(result.variables)) @@ columns_storage
             IN /\ template_map' = IF known THEN template_map
                                   ELSE (result.skeleton :> t_id) @@ template_map
                /\ skeletons_list' = IF known THEN skeletons_list
                                     ELSE Append(skeletons_list, result.skeleton)
                /\ next_template_id' = IF known THEN next_template_id
                                       ELSE next_template_id + 1
                /\ stream_template_ids' = Append(stream_template_ids, t_id)
                /\ columns_storage' =
                     [storage EXCEPT ![t_id] = AppendVars(storage[t_id], result.variables)]
                /\ line_no' = line_no + 1
                /\ UNCHANGED <<block, pc>>
  /\ UNCHANGED <<rig_vars, tmp_vars, ids_vars, reuse_vars, input_data, mode_name, text_data, is_latin1, lines,
                 decision_mode, raw_vars, dec_vars, driver_vars>>

\* load_the_truck, 3: layout decision and, for UNIFIED, the frequency remap.
\* c_len is len(zlib.compress(sample_buffer, level=1)).
LoadOptimize ==
  /\ pc = "extract"
  /\ line_no = Len(lines)
  /\ \E c_len \in ZLIB_MIN_LEN..(SampleSize(skeletons_list, columns_storage)
                                   + ZLIB_OVERHEAD) :
       LET num_templates == Len(skeletons_list)
           sample_size == SampleSize(skeletons_list, columns_storage)
           mode == IF num_templates < SPLIT_TEMPLATES /\ sample_size > 0
                      /\ c_len > 0 /\ sample_size < RATIO_LIMIT * c_len
                   THEN "SPLIT" ELSE "UNIFIED"
           remap_table == RemapTable(stream_template_ids)
       IN /\ decision_mode' = mode
          /\ IF mode = "UNIFIED"
             THEN /\ skeletons_list' =
                       [new \in 1..Len(skeletons_list) |->
                          IF \E old \in DOMAIN remap_table : remap_table[old] = new - 1
                          THEN skeletons_list[
                                 (CHOOSE old \in DOMAIN remap_table :
                                    remap_table[old] = new - 1) + 1]
                          ELSE NoneValue]
                  /\ columns_storage' =
                       [new \in {remap_table[old] : old \in DOMAIN remap_table} |->
                          columns_storage[CHOOSE old \in DOMAIN remap_table :
                                            remap_table[old] = new]]
                  /\ stream_template_ids' =
                       [j \in 1..Len(stream_template_ids) |->
                          remap_table[stream_template_ids[j]]]
             ELSE UNCHANGED <<skeletons_list, columns_storage, stream_template_ids>>
  /\ pc' = "serialize"
  /\ UNCHANGED <<rig_vars, tmp_vars, ids_vars, reuse_vars, input_data, template_map, next_template_id, mode_name, text_data,
                 is_latin1, lines, line_no, raw_vars, block, dec_vars, driver_vars>>

\* the ids length field of the unified header: for flag 3 it is 0 when
\* template 0 has columns and the number of rows when it has none
HybridLenIds(id_mode_flag, storage, total_rows, ids) ==
  IF id_mode_flag % LATIN1_BIT = 3
  THEN IF 0 \in DOMAIN storage /\ Len(storage[0]) > 0 THEN 0 ELSE total_rows
  ELSE Len(ids)

\* load_the_truck, 4 and 5: registry, ids, variables buffer, the rig
LoadSerialize ==
  /\ pc = "serialize"
  /\ LET num_templates == Len(skeletons_list)
         registry == Utf8Encode(Join(<<REG_SEP>>, skeletons_list))
         low == IdModeFlag(num_templates)
         ids == PackIds(stream_template_ids, IdWidth(low))
         id_mode_flag == IF is_latin1 THEN low + LATIN1_BIT ELSE low
         buffer == VarsBuffer(columns_storage, 0, num_templates)
         len_ids == HybridLenIds(id_mode_flag, columns_storage,
                                 Len(stream_template_ids), ids)
         solid_block == PackU32(Len(registry)) \o PackU32(len_ids)
                        \o registry \o ids \o buffer
     IN /\ raw_registry' = registry
        /\ raw_ids' = ids
        /\ vars_buffer' = buffer
        /\ block' = IF decision_mode = "SPLIT"
                    THEN [c_reg |-> rig_compress(registry), c_ids |-> rig_compress(ids),
                          c_vars |-> rig_compress(buffer), flag |-> id_mode_flag,
                          info |-> mode_name]
                    ELSE [c_reg |-> <<>>, c_ids |-> <<>>,
                          c_vars |-> rig_compress(solid_block), flag |-> id_mode_flag,
                          info |-> mode_name]
  /\ pc' = "returned"
  /\ UNCHANGED <<rig_vars, tmp_vars, ids_vars, reuse_vars, input_data, self_vars, mode_name, text_data, is_latin1, lines,
                 line_no, decision_mode, dec_vars, driver_vars>>

\* WarehouseUnloader.unload_the_truck
unload_the_truck(c_registry, c_ids, c_vars, crc, id_mode_flag) ==
  IF id_mode_flag = PASSTHROUGH_FLAG
  THEN IF crc # NoCrc /\ crc32(c_vars) # crc THEN Raised("CrcError")
       ELSE Returned(c_vars)
  ELSE Returned(<<>>)

\* unload_the_truck on the buffers and the flag that load_the_truck returned
UnloadTheTruck ==
  /\ pc = "returned"
  /\ \E crc \in CrcChoices(input_data) :
       /\ expected_crc' = crc
       /\ dec' = unload_the_truck(block.c_reg, block.c_ids, block.c_vars, crc, block.flag)
  /\ body' = BodyOf(block)
  /\ given_flag' = block.flag
  /\ pc' = "unloaded"
  /\ UNCHANGED <<rig_vars, tmp_vars, ids_vars, reuse_vars, input_data, self_vars, mode_name, text_data, is_latin1, lines,
                 line_no, decision_mode, raw_vars, block, driver_vars>>

NextWarehouse ==
  LoadClassify \/ LoadExtractLine \/ LoadOptimize \/ LoadSerialize \/ UnloadTheTruck

SpecWarehouse == Init /\ [][NextWarehouse]_vars

\* ------------------------------------------------------------------------
\* Properties
\* ------------------------------------------------------------------------
\* decompress was run on the unchanged block with the CRC32 of the input
DecodedWithInputCrc ==
  /\ pc = "decoded"
  /\ body = BodyOf(block)
  /\ given_flag = block.flag
  /\ expected_crc = crc32(input_data)

\* C1: decompress applied to the block a fresh compress returned for B, with
\* expected_crc = CRC32(B), returns exactly B, for every input B.
C1_RoundTrip ==
  DecodedWithInputCrc => (dec.status = "ok" /\ dec.data = input_data)

\* C2: every block emitted with flag 255 round-trips: the decoder's plaintext
\* equals the input and the CRC32 of the payload's plaintext equals the CRC32
\* of the input.
C2_PassthroughRoundTrip ==
  (DecodedWithInputCrc /\ block.flag = PASSTHROUGH_FLAG)
    => (/\ dec.status = "ok"
        /\ dec.data = input_data
        /\ crc32(lzma_decompress(block.c_vars).data) = crc32(input_data))

\* C3: an input that decodes as Latin-1 but not as UTF-8 round-trips and the
\* flag byte of its block has bit 0x80 set.
C3_Latin1RoundTrip ==
  (DecodedWithInputCrc /\ ~Utf8Decode(input_data).ok)
    => (/\ dec.status = "ok"
        /\ dec.data = input_data
        /\ (block.flag \div LATIN1_BIT) % 2 = 1)

\* C4: when expected_crc is supplied and differs from the CRC32 of the
\* plaintext the decoder reconstructed, decompress raises and returns no
\* data, for every flag value, 255 included.
C4_CrcMismatchRaises ==
  (pc = "decoded" /\ expected_crc # NoCrc /\ dec.status = "ok")
    => crc32(dec.data) = expected_crc

\* decompress was run on a body that differs from the block in one byte
DecodedChanged == pc = "decoded" /\ body # BodyOf(block)

Occurrences(t) == Cardinality({j \in 1..Len(stream_template_ids) : stream_template_ids[j] = t})

\* C8: during and after template extraction the stream has one entry per line
\* processed, and every column of every template is as long as the number of
\* occurrences of the template in the stream.
C8_StreamAndColumns ==
  /\ Len(stream_template_ids) = line_no
  /\ \A t \in DOMAIN columns_storage :
       \A i \in 1..Len(columns_storage[t]) :
         Len(columns_storage[t][i]) = Occurrences(t)

\* extraction has taken several lines of two templates, one of them with two
\* columns and two lines
C8_Witness ==
  /\ pc = "extract"
  /\ line_no >= 3
  /\ Len(skeletons_list) >= 2
  /\ \E t \in DOMAIN columns_storage :
       Len(columns_storage[t]) >= 2 /\ Occurrences(t) >= 2

\* compress returned a split or unified block
Emitted == pc \in {"returned", "decoded"} /\ block.flag # PASSTHROUGH_FLAG

Templates == 0..(Len(skeletons_list) - 1)

\* C9 as stated: in a non-passthrough block the first column of every
\* template exists and the first-column lengths add up to len(stream).
C9_FirstColumnsSum ==
  Emitted =>
    /\ \A t \in Templates : Len(columns_storage[t]) >= 1
    /\ Sum([k \in 1..Len(skeletons_list) |->
              IF Len(columns_storage[k - 1]) >= 1
              THEN Len(columns_storage[k - 1][1]) ELSE 0])
         = Len(stream_template_ids)

\* C9 as amended: in a non-passthrough block the first-column lengths of the
\* templates that have a column, plus the number of lines whose template has
\* no column, add up to len(stream).
C9_FirstColumnsSumOverColumns ==
  Emitted =>
    Sum([k \in 1..Len(skeletons_list) |->
           IF Len(columns_storage[k - 1]) >= 1
           THEN Len(columns_storage[k - 1][1]) ELSE Occurrences(k - 1)])
      = Len(stream_template_ids)

\* a block with a template without column and a template with a column that
\* has several lines
C9_Witness ==
  /\ Emitted
  /\ \E t \in Templates : Len(columns_storage[t]) = 0
  /\ \E t \in Templates : Len(columns_storage[t]) >= 1 /\ Occurrences(t) >= 2

\* C10: in a block serialized in UNIFIED mode the ids are numbered by
\* descending frequency: id i occurs at least as often as id i+1.
C10_DescendingFrequency ==
  (pc \in {"serialize", "returned", "decoded"} /\ decision_mode = "UNIFIED")
    => \A t \in Templates :
         (t + 1) \in Templates => Occurrences(t) >= Occurrences(t + 1)

\* a UNIFIED block of two templates whose first line belongs to the rarer one
C10_Witness ==
  /\ pc = "returned"
  /\ decision_mode = "UNIFIED"
  /\ block.flag # PASSTHROUGH_FLAG
  /\ Len(skeletons_list) >= 2
  /\ stream_template_ids[1] = 1
  /\ Occurrences(0) > Occurrences(1)

\* the frames of an archive, as do_decompress cuts them
RECURSIVE FramesFrom(_, _)
FramesFrom(a, pos) ==
  IF Len(a) - pos < HEADER_LEN THEN <<>>
  ELSE LET l_reg == UnpackU32(a, pos + 5)
           l_ids == UnpackU32(a, pos + 9)
           l_vars == UnpackU32(a, pos + 13)
           first == pos + HEADER_LEN
       IN IF Len(a) - first < l_reg + l_ids + l_vars THEN <<>>
          ELSE <<[crc |-> UnpackU32(a, pos + 1),
                  flag |-> a[pos + HEADER_LEN],
                  c_reg |-> SubSeq(a, first + 1, first + l_reg),
                  c_ids |-> SubSeq(a, first + l_reg + 1, first + l_reg + l_ids),
                  c_vars |-> SubSeq(a, first + l_reg + l_ids + 1,
                                    first + l_reg + l_ids + l_vars)]>>
               \o FramesFrom(a, first + l_reg + l_ids + l_vars)

\* the run went through do_compress
Compressed ==
  \E i \in DOMAIN cli_out :
    cli_out[i] \in {"Compression completed", "Error during compression"}

\* C6: do_compress with chunk size S on an N-byte input writes ceil(N/S)
\* frames in input order, frame k carrying the CRC32 and the compressed form
\* of chunk k, and do_decompress on that archive writes the input back.
C6_ChunkedArchive ==
  (driver_pc = "exited" /\ Compressed /\ chunk_size > 0) =>
    LET frames == FramesFrom(archive, 0)
        n == NumChunks(Len(original_data), chunk_size)
    IN /\ Len(frames) = n
       /\ \A k \in 1..n :
            /\ frames[k].crc = crc32(ChunkOf(original_data, chunk_size, k))
            /\ decompress(frames[k].c_reg, frames[k].c_ids, frames[k].c_vars,
                          frames[k].crc, frames[k].flag).data
                 = ChunkOf(original_data, chunk_size, k)
       /\ restored_file = original_data

\* the compressor holds nothing
EmptyDictionary ==
  /\ template_map = EmptyMap
  /\ next_template_id = 0
  /\ skeletons_list = <<>>
  /\ stream_template_ids = <<>>
  /\ columns_storage = EmptyMap

HasReserved(t) == Contains(t, VAR_PLACEHOLDER) \/ Contains(t, REG_SEP)

\* C11: when a line of the decoded text contains U+E000 or U+E001, compress
\* returns a passthrough block (flag 255) that decodes to the input without
\* raising; and no skeleton of skeletons_list ever contains U+E001.
C11_ReservedPassthrough ==
  /\ (pc \in {"returned", "decoded"} /\ HasReserved(Utf8Decode(input_data).text)) =>
       /\ block.flag = PASSTHROUGH_FLAG
       /\ decompress(block.c_reg, block.c_ids, block.c_vars, crc32(input_data), block.flag)
            = [status |-> "ok", data |-> input_data]
       /\ pc = "decoded" => dec.status = "ok"
  /\ \A i \in 1..Len(skeletons_list) : ~Contains(skeletons_list[i], REG_SEP)

\* a text whose second line holds U+E001 was stopped by the tokenizer after a
\* template had been registered, and its block was decoded
C11_Witness ==
  /\ pc = "decoded"
  /\ Contains(text_data, REG_SEP)
  /\ block.info = "Collision Protected"
  /\ Len(skeletons_list) >= 1
  /\ dec.data = input_data

\* the columns of the block in the order of the variables buffer
RECURSIVE ColumnsFrom(_)
ColumnsFrom(t_id) ==
  IF t_id >= Len(skeletons_list) THEN <<>>
  ELSE columns_storage[t_id] \o ColumnsFrom(t_id + 1)

\* the positions of b that are not the second byte of an escape pair
Unescaped(b) == {i \in 1..Len(b) : Scanned(b, i)}

\* the part of the buffer between the unescaped 0x02 bytes, column k
ColumnBytes(b, k) ==
  LET ends == {i \in Unescaped(b) : b[i] = COL_SEP}
      e == CHOOSE i \in ends : Cardinality({j \in ends : j < i}) = k - 1
  IN SubSeq(b, LastEndBefore(ends, e) + 1, e - 1)

\* C12: in the variables buffer built by compress every 0x00 outside an
\* escape pair separates two values of one column, every 0x02 outside an
\* escape pair ends exactly one column, no column ends with an unpaired 0x01,
\* and the unescaped 0x02 bytes are as many as the columns of all templates.
C12_ByteStuffing ==
  (pc \in {"returned", "decoded"} /\ block.flag # PASSTHROUGH_FLAG) =>
    LET cols == ColumnsFrom(0)
        b == vars_buffer
    IN /\ Cardinality({i \in Unescaped(b) : b[i] = COL_SEP}) = Len(cols)
       /\ Len(b) > 0 => (Len(b) \in Unescaped(b) /\ b[Len(b)] = COL_SEP)
       /\ \A k \in 1..Len(cols) :
            LET col == ColumnBytes(b, k)
                rows == {i \in Unescaped(col) : col[i] = ROW_SEP}
            IN /\ Cardinality(rows) = Len(cols[k]) - 1
               /\ Scanned(col, Len(col) + 1)
               /\ Append(Segments(col, rows, [i \in 1..Len(col) |-> 1]), Remainder(col, rows))
                    = EncodeValues(cols[k])

\* a block with a column of two values, one of them holding a byte of the
\* stuffing, and with an escaped 0x00 and an escaped 0x02 in its buffer
C12_Witness ==
  /\ pc = "returned"
  /\ block.flag # PASSTHROUGH_FLAG
  /\ \E t \in Templates : \E c \in 1..Len(columns_storage[t]) :
       /\ Len(columns_storage[t][c]) = 2
       /\ columns_storage[t][c][1] = <<0>>
       /\ columns_storage[t][c][2] = <<2>>
  /\ \E i \in 1..(Len(vars_buffer) - 1) : vars_buffer[i] = B_ESC /\ vars_buffer[i + 1] = 3

\* C13: the decoder's unescape of a cell (01 03 to 02, then 01 00 to 00, then
\* 01 01 to 01, each over the whole cell) applied to the encoder's escaped
\* form of a value returns the value, for every value compress has stored.
C13_UnescapeInvertsEscape ==
  (pc \in {"returned", "decoded"} /\ block.flag # PASSTHROUGH_FLAG) =>
    LET cols == ColumnsFrom(0)
    IN \A k \in 1..Len(cols) : \A r \in 1..Len(cols[k]) :
         Unescape(Escape(Utf8Encode(cols[k][r]))) = Utf8Encode(cols[k][r])

\* floor(unique_limit) for the lines and the mode of the call
UniqueLimitFloor ==
  (Len(lines) * (IF mode_name = "Aggressive" THEN AGGRESSIVE_PCT ELSE STRICT_PCT)) \div 100

\* a turn of the extraction loop whose line gives a skeleton not yet in
\* template_map
NewSkeletonTurn ==
  /\ pc = "extract"
  /\ line_no < Len(lines)
  /\ ~mask_line(mode_name, lines[line_no + 1]).none
  /\ mask_line(mode_name, lines[line_no + 1]).skeleton \notin DOMAIN template_map

\* what the loop does with a new skeleton
GuardedRegistration ==
  NewSkeletonTurn =>
    IF next_template_id * 100
         > Len(lines) * (IF mode_name = "Aggressive" THEN AGGRESSIVE_PCT ELSE STRICT_PCT)
    THEN /\ pc' = "returned"
         /\ block'.flag = PASSTHROUGH_FLAG
         /\ block'.info = "Passthrough [Entropy]"
         /\ UNCHANGED self_vars
    ELSE /\ pc' = "extract"
         /\ skeletons_list' = Append(skeletons_list, mask_line(mode_name, lines[line_no + 1]).skeleton)
         /\ next_template_id' = next_template_id + 1
         /\ block' = block

\* C14: a line with a new skeleton met while next_template_id > unique_limit
\* makes compress return a passthrough block, otherwise the skeleton is
\* registered; the dictionary never holds more than floor(unique_limit) + 1
\* templates.
C14_UniqueLimitGuard ==
  /\ [][GuardedRegistration]_vars
  /\ [](pc \in {"extract", "serialize", "returned", "decoded"}
          => Len(skeletons_list) <= UniqueLimitFloor + 1)

\* the guard stopped compress at a dictionary of floor(unique_limit) + 1
\* templates, two at least
C14_Witness ==
  /\ pc = "returned"
  /\ block.info = "Passthrough [Entropy]"
  /\ Len(skeletons_list) = UniqueLimitFloor + 1
  /\ Len(skeletons_list) >= 2

\* C15: decompress rejects with an error every flag byte that is not 255 and
\* whose value with bit 0x80 masked is not one of 0, 1, 2, 3, the value 127
\* included; no such flag is decoded as if it were a defined width.
C15_UndefinedFlagRejected ==
  (pc = "decoded" /\ given_flag \in UndefinedFlags) => dec.status # "ok"

\* the archive ends inside a header or inside a block body
RECURSIVE EndsInside(_, _)
EndsInside(a, pos) ==
  IF Len(a) = pos THEN FALSE
  ELSE IF Len(a) - pos < HEADER_LEN THEN TRUE
  ELSE IF Len(a) - pos - HEADER_LEN < BodyLen(a, pos) THEN TRUE
  ELSE EndsInside(a, pos + HEADER_LEN + BodyLen(a, pos))

Printed(msg) == \E i \in DOMAIN cli_out : cli_out[i] = msg

\* C16: on an archive that ends inside a 17-byte header or inside a block
\* body, do_decompress and do_verify_standalone report no success and the
\* run ends in a failure status.
C16_TruncationFatal ==
  (driver_pc = "exited" /\ archive \in TruncatedArchives /\ EndsInside(archive, 0)) =>
    /\ ~Printed("Decompression done")
    /\ ~Printed("FILE INTEGRITY VERIFIED")
    /\ exit_status # 0

\* the run of -c or -d that just ended met a failing chunk or block
OperationFailed ==
  \/ /\ driver_pc = "compressed"
     /\ Len(cli_out) > 0
     /\ cli_out[Len(cli_out)] = "Error during compression"
  \/ /\ driver_pc = "exited"
     /\ Len(cli_out) > 0
     /\ cli_out[Len(cli_out)] = "Error during decompression"

\* C17: when compressing a chunk or decoding a block fails in -c or -d mode,
\* the process ends with a non-zero exit status.
C17_FailureExitStatus == OperationFailed => exit_status # 0

\* the in-process LZMA codec on the bytes of the wrapper call
InProcess ==
  IF rig_call = "RuntimeLzmaCompressor.compress" THEN LzmaBackend_compress(rig_data)
  ELSE IF rig_call = "RuntimeLzmaDecompressor.decompress"
  THEN LzmaDecompressorBackend_decompress(rig_data)
  ELSE LzmaDecompress(rig_data)

\* C18: when the external helper exits non-zero, cannot be run, or gives no
\* output for a non-empty input, the wrapper call gives what the in-process
\* LZMA codec gives on the same bytes.
C18_HelperFailureFallsBack ==
  (rig_call # "none" /\ rig_data # <<>> /\ helper \in {"nonzero", "raised", "empty"})
    => rig_out = InProcess


\* unload_the_truck has run with the CRC32 of the input of load_the_truck
UnloadedWithInputCrc == pc = "unloaded" /\ expected_crc = crc32(input_data)

\* C19: unload_the_truck, given the buffers and the flag that
\* load_the_truck(B) returned and the CRC32 of B, returns B, for the blocks of
\* flag 0, 1, 2 and 3 as for the passthrough ones.
C19_UnloadReturnsInput == UnloadedWithInputCrc => dec = Returned(input_data)

\* C20: a passthrough block of the foreman has flag 255, empty c_reg and
\* c_ids, and the rig's compression of the input bytes as c_vars, and the
\* unloader returns for it what the rig's decompress gives on c_vars.
C20_PassthroughCompressed ==
  (pc \in {"returned", "unloaded"} /\ block.flag = PASSTHROUGH_FLAG)
    => /\ block.c_reg = <<>>
       /\ block.c_ids = <<>>
       /\ block.c_vars = rig_compress(input_data)
       /\ (pc = "unloaded" /\ dec.status = "ok")
            => dec = LzmaDecompressorBackend_decompress(body.c_vars)


\* a block was decoded whose ID stream or columns are not those serialized
DecodedAltered ==
  /\ pc = "decoded"
  /\ \/ body.c_ids # lzma_compress(raw_ids)
     \/ body.c_vars # lzma_compress(vars_buffer)

\* C21: when the ID stream asks a template for more or fewer values than its
\* columns hold, or the columns of a template differ in length, decompress
\* fails, with or without an expected CRC.
C21_InconsistentBlockFails == DecodedAltered => dec.status # "ok"


\* what the block decodes to with bit 0x80 of the flag cleared and no CRC:
\* the reconstructed bytes before the Latin-1 restoration
Reconstructed == decompress(body.c_reg, body.c_ids, body.c_vars, NoCrc, given_flag % LATIN1_BIT)

\* the bytes are UTF-8 of a text that Latin-1 can encode
Restorable(b) ==
  /\ Utf8Decode(b).ok
  /\ \A i \in 1..Len(Utf8Decode(b).text) : Utf8Decode(b).text[i] < 256

\* the Latin-1 bit is set and the reconstructed bytes cannot be re-encoded
RestorationFailed ==
  /\ pc = "decoded"
  /\ given_flag >= LATIN1_BIT
  /\ given_flag # PASSTHROUGH_FLAG
  /\ Reconstructed.status = "ok"
  /\ ~Restorable(Reconstructed.data)

\* C22: when the Latin-1 bit is set and the reconstructed bytes cannot be
\* re-encoded as Latin-1, decompress returns the reconstructed UTF-8 bytes as
\* they are: it raises only when an expected CRC is given that is not theirs.
C22_RestorationFailureKeepsUtf8 ==
  RestorationFailed =>
    IF expected_crc = NoCrc \/ expected_crc = crc32(Reconstructed.data)
    THEN dec = [status |-> "ok", data |-> Reconstructed.data]
    ELSE dec.status = "CrcError"

C22_Witness ==
  /\ RestorationFailed
  /\ dec.status = "ok"
  /\ Len(dec.data) > 0
  /\ expected_crc = NoCrc


\* the call is between its beginning and its end
Running(c) == backend_calls[c].pc \notin {"idle", "ended"}

\* C23: once a call of SevenZipBackend.compress or
\* SevenZipDecompressorBackend.decompress has ended, by return or by an
\* exception, none of its temporary files exists; and two calls running at the
\* same time never have a temporary file name in common.
C23_TempFilesReleasedAndPrivate ==
  /\ \A c \in CallIds :
       backend_calls[c].pc = "ended" => tmp_files \cap TempNames(backend_calls[c]) = {}
  /\ \A c, d \in CallIds :
       (c # d /\ Running(c) /\ Running(d))
         => TempNames(backend_calls[c]) \cap TempNames(backend_calls[d]) = {}


Finished == pc \in {"returned", "decoded"}

\* the input has at least two lines and no two of them are the same
UniqueLines ==
  /\ Finished
  /\ Len(lines) >= 2
  /\ \A i, j \in 1..Len(lines) : i # j => lines[i] # lines[j]

DistinctSkeletons ==
  /\ Finished
  /\ Len(lines) >= 2
  /\ \A i, j \in 1..Len(lines) :
       i # j => mask_line(mode_name, lines[i]).skeleton # mask_line(mode_name, lines[j]).skeleton
                \/ mask_line(mode_name, lines[i]).none

IdsDecoded == pc = "decoded"

Loaded == pc \in {"returned", "unloaded"} /\ block.flag # PASSTHROUGH_FLAG

\* the decoder's test
is_unified(b) == Len(b.c_reg) = 0 /\ Len(b.c_ids) = 0

\* C26: for every non-passthrough block of the foreman, with a rig that maps
\* the empty input to the empty output, the decoder's test is_unified is true
\* exactly when the encoder chose UNIFIED; a SPLIT block never has both c_reg
\* and c_ids empty, also when its ID stream is elided
C26_UnifiedTestMatchesDecision ==
  Loaded => (is_unified(block) <=> decision_mode = "UNIFIED")

\* a SPLIT block with a single template: the elided ID stream has an empty
\* c_ids from the rig, and c_reg is not empty
C26_Witness ==
  /\ Loaded
  /\ decision_mode = "SPLIT"
  /\ block.flag % LATIN1_BIT = 3
  /\ block.c_ids = <<>>
  /\ rig_compress(<<>>) = <<>>
  /\ block.c_reg # <<>>

\* ------------------------------------------------------------------------
\* C27
\* ------------------------------------------------------------------------
\* the step of compress that remaps the template IDs by frequency
RemapStep == pc = "extract" /\ pc' = "serialize" /\ decision_mode' = "UNIFIED"

\* C27: the UNIFIED frequency remap is a permutation of the template IDs
\* 0..n-1: after it skeletons_list has no None entry and holds the skeletons
\* it held before, columns_storage has a key for every ID 0..n-1, and at every
\* line position the skeleton and the columns reached through the new stream
\* are the ones reached through the old stream
C27_RemapIsPermutation ==
  [][RemapStep =>
       LET n == Len(skeletons_list)
       IN /\ Len(skeletons_list') = n
          /\ \A i \in 1..n : skeletons_list'[i] # NoneValue
          /\ \A i \in 1..n : \E k \in 1..n : skeletons_list'[k] = skeletons_list[i]
          /\ DOMAIN columns_storage' = 0..(n - 1)
          /\ Len(stream_template_ids') = Len(stream_template_ids)
          /\ \A j \in 1..Len(stream_template_ids) :
               /\ stream_template_ids'[j] \in 0..(n - 1)
               /\ skeletons_list'[stream_template_ids'[j] + 1]
                    = skeletons_list[stream_template_ids[j] + 1]
               /\ columns_storage'[stream_template_ids'[j]]
                    = columns_storage[stream_template_ids[j]]]_vars

\* after a remap that moved a template: the skeleton now at ID 0 was
\* registered under another ID (template_map keeps the IDs of registration)
C27_Witness ==
  /\ pc = "serialize"
  /\ decision_mode = "UNIFIED"
  /\ Len(skeletons_list) >= 2
  /\ skeletons_list[1] \in DOMAIN template_map
  /\ template_map[skeletons_list[1]] # 0
  /\ \E x, y \in DOMAIN columns_storage :
       x # y /\ Count(stream_template_ids, x) = Count(stream_template_ids, y)

\* ------------------------------------------------------------------------
\* C28
\* ------------------------------------------------------------------------
\* a turn of the extraction loop that took a line into the stream
LineTaken == pc = "extract" /\ pc' = "extract" /\ line_no' = line_no + 1

\* C28: for every line that passes the collision guard the number of captured
\* literals is the number of U+E000 in its skeleton, the template of the line
\* has as many columns as its skeleton has placeholders, every captured
\* literal is the last value of its column, and splicing the literals between
\* the parts of the skeleton split on U+E000 gives the line again, terminator
\* included
C28_LiteralsMatchPlaceholders ==
  [][LineTaken =>
       LET line == lines[line_no + 1]
           result == mask_line(mode_name, line)
           t_id == stream_template_ids'[line_no + 1]
           columns == columns_storage'[t_id]
           holes == Count(result.skeleton, VAR_PLACEHOLDER)
       IN /\ ~result.none
          /\ Len(result.variables) = holes
          /\ skeletons_list'[t_id + 1] = result.skeleton
          /\ Len(columns) = holes
          /\ \A i \in 1..Len(result.variables) :
               /\ Len(columns[i]) > 0
               /\ columns[i][Len(columns[i])] = result.variables[i]
          /\ Splice(split(result.skeleton, VAR_PLACEHOLDER), result.variables) = line]_vars

\* a line with a quoted literal and another literal, closed by a line feed,
\* has been taken
C28_Witness ==
  /\ pc = "extract"
  /\ line_no >= 1
  /\ lines[line_no][Len(lines[line_no])] = LF
  /\ LET result == mask_line(mode_name, lines[line_no])
     IN /\ ~result.none
        /\ Len(result.variables) >= 2
        /\ Contains(result.skeleton, QUOTE)
        /\ \E i \in 1..Len(result.variables) : Len(result.variables[i]) > 0

\* ------------------------------------------------------------------------
\* C29
\* ------------------------------------------------------------------------
\* the payload of a UNIFIED block: what the rig's decompress gives on c_vars
full_payload == LzmaDecompressorBackend_decompress(block.c_vars).data

\* C29: in every UNIFIED block len_reg and len_ids of the internal header are
\* the byte lengths of the registry and of the ID section that follow it, so
\* the variables buffer starts at offset 8 + len_reg + len_ids; when the low
\* bits of the flag are 3 the ID section is empty and len_ids is written as 0
C29_UnifiedHeaderLengths ==
  (Loaded /\ decision_mode = "UNIFIED") =>
    LET len_reg == UnpackLen(full_payload, 1)
        len_ids == UnpackLen(full_payload, 5)
    IN /\ len_reg = Len(raw_registry)
       /\ len_ids = Len(raw_ids)
       /\ SubSeq(full_payload, 9, 8 + len_reg) = raw_registry
       /\ SubSeq(full_payload, 9 + len_reg, 8 + len_reg + len_ids) = raw_ids
       /\ SubSeq(full_payload, 9 + len_reg + len_ids, Len(full_payload)) = vars_buffer
       /\ block.flag % LATIN1_BIT = 3 => (raw_ids = <<>> /\ len_ids = 0)

\* ------------------------------------------------------------------------
\* C30
\* ------------------------------------------------------------------------
\* the second compress call of the instance has returned
SecondReturned == call_no = 2 /\ pc = "returned"

\* C30: a second compress call on the same instance returns the block that a
\* fresh instance returns for the same input (here the input of the first
\* call, which was made on the fresh instance): what the first call left in
\* the instance does not enter the second block.  The layout decision hangs
\* on the length of a zlib sample, so the blocks are compared when both calls
\* decided alike.
C30_SecondCallAsFresh ==
  (SecondReturned /\ decision_mode = first_result.decision_mode)
    => block = first_result.block

====
